---- MODULE Spec2Model ----
(***************************************************************************)
(* The canvas extension engine of the isometric-world server               *)
(* (src/unnamed/part_001): thirds geometry, slide / extract / composite    *)
(* helpers, the rightward and leftward loops of extendSeed, the merge, the *)
(* downward phase extendBottomRow and the /api/extend handler.             *)
(*                                                                         *)
(* A raster is  [width, height, tiles]:  tiles is the paint list, in paint *)
(* order, of rectangles  [left, top, width, height, src, sx, sy]  showing  *)
(* the pixels of source image src from (sx, sy) on.  Coordinates are       *)
(* 0-based as in the code.  A thrown Error is the value [error |-> msg];   *)
(* every helper passes an error it is handed on to its caller.             *)
(***************************************************************************)
EXTENDS Integers, Sequences, FiniteSets, TLC

\* ------------------------------------------------------------------ bounds
MaxSeedW == 7
MaxSeedH == 4
MaxIterations == 2
MaxCanvasW == 7
MaxCanvasH == 4
MaxInvocations == 2
MaxUnitW == 20
MaxUnitH == 4
MaxBandW == 3
MaxBandH == 3
MaxLeft == 8
MaxTop == 1
MaxTileHeight == 5
MaxFiles == 1
MaxGrowth == 1
MaxDown == 0

\* -------------------------------------------------------- program constants
ITERATIONS == 3

\* the 90x90 seed of the end-to-end scenarios
ScenarioSeed == <<90, 90>>
\* the collaborator's own output size when it does not match the upload
FalSquare == <<8, 8>>

\* ----------------------------------------------------------------- helpers
Min(a, b) == IF a <= b THEN a ELSE b
Max(a, b) == IF a >= b THEN a ELSE b

Err(msg) == [error |-> msg]
IsError(v) == "error" \in DOMAIN v

NoBuffer == [width |-> 0, height |-> 0, tiles |-> <<>>]

White == [kind |-> "white"]

Region(left, top, width, height) ==
  [left |-> left, top |-> top, width |-> width, height |-> height]

\* the part of tile t inside region g, in g's coordinates
ClipTile(t, g) ==
  LET l == Max(t.left, g.left)
      tp == Max(t.top, g.top)
      r == Min(t.left + t.width, g.left + g.width)
      b == Min(t.top + t.height, g.top + g.height)
  IN [left |-> l - g.left, top |-> tp - g.top, width |-> r - l, height |-> b - tp,
      src |-> t.src, sx |-> t.sx + (l - t.left), sy |-> t.sy + (tp - t.top)]

NonEmpty(t) == t.width > 0 /\ t.height > 0

ClipTiles(tiles, g) ==
  SelectSeq([i \in 1..Len(tiles) |-> ClipTile(tiles[i], g)], NonEmpty)

ShiftTile(t, dx, dy) == [t EXCEPT !.left = @ + dx, !.top = @ + dy]

\* the pixel of raster r at (x, y): the topmost tile covering it
RECURSIVE TopTile(_, _, _, _)
TopTile(tiles, i, x, y) ==
  IF i = 0 THEN [left |-> 0, top |-> 0, width |-> 0, height |-> 0,
                 src |-> [kind |-> "none"], sx |-> 0, sy |-> 0]
  ELSE LET t == tiles[i]
       IN IF /\ t.left <= x /\ x < t.left + t.width
             /\ t.top <= y /\ y < t.top + t.height
          THEN t ELSE TopTile(tiles, i - 1, x, y)

PixelAt(r, x, y) ==
  LET t == TopTile(r.tiles, Len(r.tiles), x, y)
  IN IF t.src.kind \in {"white", "none"}
     THEN [src |-> t.src, x |-> 0, y |-> 0]
     ELSE [src |-> t.src, x |-> t.sx + (x - t.left), y |-> t.sy + (y - t.top)]

\* ------------------------------------------------------------ sharp pipeline
\* sharp({create: {width, height, background: white}})
createWhiteBackground(width, height) ==
  [width |-> width, height |-> height,
   tiles |-> <<[left |-> 0, top |-> 0, width |-> width, height |-> height,
                src |-> White, sx |-> 0, sy |-> 0]>>]

\* sharp(buffer).extract(region): throws when the region leaves the image
extract(buffer, g) ==
  IF IsError(buffer) THEN buffer
  ELSE IF \/ g.left < 0 \/ g.top < 0 \/ g.width <= 0 \/ g.height <= 0
          \/ g.left + g.width > buffer.width
          \/ g.top + g.height > buffer.height
       THEN Err("extract_area: bad extract area")
       ELSE [width |-> g.width, height |-> g.height,
             tiles |-> ClipTiles(buffer.tiles, g)]

\* the paint list of the overlays, each placed at its offset, in order
RECURSIVE OverlayTiles(_, _)
OverlayTiles(overlays, g) ==
  IF overlays = <<>> THEN <<>>
  ELSE LET o == Head(overlays)
           placed == [i \in 1..Len(o.input.tiles) |->
                        ShiftTile(o.input.tiles[i], o.left, o.top)]
       IN ClipTiles(placed, g) \o OverlayTiles(Tail(overlays), g)

\* sharp(base).composite(overlays): an overlay larger than the base throws,
\* an overlay hanging over an edge is clipped
composite(base, overlays) ==
  IF IsError(base) THEN base
  ELSE IF \E i \in 1..Len(overlays) : IsError(overlays[i].input)
       THEN (CHOOSE o \in {overlays[i] : i \in 1..Len(overlays)} :
                IsError(o.input)).input
  ELSE IF \E i \in 1..Len(overlays) :
            \/ overlays[i].input.width > base.width
            \/ overlays[i].input.height > base.height
       THEN Err("Image to composite must have same dimensions or smaller")
       ELSE [width |-> base.width, height |-> base.height,
             tiles |-> base.tiles \o
                       OverlayTiles(overlays, Region(0, 0, base.width, base.height))]

\* sharp(buffer).resize({width, height, fit: 'fill'}): a new image of the
\* requested size whose pixels are interpolated from the whole input
resize(buffer, width, height) ==
  IF IsError(buffer) THEN buffer
  ELSE [width |-> width, height |-> height,
        tiles |-> <<[left |-> 0, top |-> 0, width |-> width, height |-> height,
                     src |-> [kind |-> "resize", input |-> buffer],
                     sx |-> 0, sy |-> 0]>>]

\* sharp(buffer).toColourspace('srgb').png(): undecodable bytes throw
ensureRgbPng(file) ==
  IF file.kind # "image" THEN Err("Input buffer contains unsupported image format")
  ELSE [width |-> file.width, height |-> file.height,
        tiles |-> <<[left |-> 0, top |-> 0, width |-> file.width,
                     height |-> file.height,
                     src |-> [kind |-> "seed"], sx |-> 0, sy |-> 0]>>]
\* mutant: the boundaries rounded to the nearest column instead of floored
ThirdsRounded(width) ==
  [col1End |-> (2 * width + 3) \div 6,
   col2End |-> (4 * width + 3) \div 6,
   thirdWidth |-> width - ((4 * width + 3) \div 6)]

\* ------------------------------------------------------------------ geometry
\* the thirds boundaries every slide computes from the image width
Thirds(width) ==
  [col1End |-> width \div 3,
   col2End |-> (2 * width) \div 3,
   thirdWidth |-> width - ((2 * width) \div 3)]
\* mutant: the slices cut and placed without the too-small guard
slideImageLeftUnguarded(buffer) ==
  IF IsError(buffer) THEN buffer
  ELSE
  LET width == buffer.width
      height == buffer.height
      col1End == Thirds(width).col1End
      col2End == Thirds(width).col2End
      thirdWidth == Thirds(width).thirdWidth
  IN IF width = 0 \/ height = 0 THEN Err("Invalid image dimensions")
     ELSE LET middleSlice == extract(buffer, Region(col1End, 0, col2End - col1End, height))
              rightSlice == extract(buffer, Region(col2End, 0, thirdWidth, height))
          IN composite(createWhiteBackground(width, height),
                       <<[input |-> middleSlice, left |-> 0, top |-> 0],
                         [input |-> rightSlice, left |-> col1End, top |-> 0]>>)

slideImageLeft(buffer) ==
  IF IsError(buffer) THEN buffer
  ELSE
  LET width == buffer.width
      height == buffer.height
      col1End == Thirds(width).col1End
      col2End == Thirds(width).col2End
      thirdWidth == Thirds(width).thirdWidth
  IN IF width = 0 \/ height = 0 THEN Err("Invalid image dimensions")
     ELSE IF col1End <= 0 \/ col2End <= col1End \/ thirdWidth <= 0
     THEN Err("Image width is too small to split into thirds")
     ELSE LET middleSlice == extract(buffer, Region(col1End, 0, col2End - col1End, height))
              rightSlice == extract(buffer, Region(col2End, 0, thirdWidth, height))
          IN composite(createWhiteBackground(width, height),
                       <<[input |-> middleSlice, left |-> 0, top |-> 0],
                         [input |-> rightSlice, left |-> col1End, top |-> 0]>>)

slideImageRight(buffer) ==
  IF IsError(buffer) THEN buffer
  ELSE
  LET width == buffer.width
      height == buffer.height
      col1End == Thirds(width).col1End
      col2End == Thirds(width).col2End
      leftWidth == col1End
      rightWidth == Thirds(width).thirdWidth
  IN IF width = 0 \/ height = 0 THEN Err("Invalid image dimensions")
     ELSE IF leftWidth <= 0 \/ rightWidth <= 0 \/ col2End <= col1End
     THEN Err("Image width is too small to split into thirds")
     ELSE LET leftSlice == extract(buffer, Region(0, 0, leftWidth, height))
              middleSlice == extract(buffer, Region(col1End, 0, col2End - col1End, height))
          IN composite(createWhiteBackground(width, height),
                       <<[input |-> leftSlice, left |-> rightWidth, top |-> 0],
                         [input |-> middleSlice, left |-> rightWidth + leftWidth, top |-> 0]>>)
\* mutant: the band cut one column wider than what is left of the image
extractRightThirdInclusive(buffer) ==
  IF IsError(buffer) THEN buffer
  ELSE
  LET width == buffer.width
      height == buffer.height
      col2End == (2 * width) \div 3
      thirdWidth == width - col2End + 1
  IN IF width = 0 \/ height = 0 THEN Err("Invalid image dimensions")
     ELSE IF thirdWidth <= 0 THEN Err("Failed to compute right third width")
     ELSE extract(buffer, Region(col2End, 0, thirdWidth, height))

extractRightThird(buffer) ==
  IF IsError(buffer) THEN buffer
  ELSE
  LET width == buffer.width
      height == buffer.height
      col2End == (2 * width) \div 3
      thirdWidth == width - col2End
  IN IF width = 0 \/ height = 0 THEN Err("Invalid image dimensions")
     ELSE IF thirdWidth <= 0 THEN Err("Failed to compute right third width")
     ELSE extract(buffer, Region(col2End, 0, thirdWidth, height))

slideImageUp(buffer) ==
  IF IsError(buffer) THEN buffer
  ELSE
  LET width == buffer.width
      height == buffer.height
      tileHeight == height \div 3
      keepHeight == height - tileHeight
  IN IF width = 0 \/ height = 0 THEN Err("Invalid image dimensions")
     ELSE IF keepHeight <= 0 THEN Err("Image height is too small to slide up")
     ELSE LET topPortion == extract(buffer, Region(0, 0, width, keepHeight))
          IN composite(createWhiteBackground(width, height),
                       <<[input |-> topPortion, left |-> 0, top |-> 0]>>)

extractBottomThird(buffer) ==
  IF IsError(buffer) THEN buffer
  ELSE
  LET width == buffer.width
      height == buffer.height
      row2End == (2 * height) \div 3
      bandHeight == height - row2End
  IN IF width = 0 \/ height = 0 THEN Err("Invalid image dimensions")
     ELSE IF bandHeight <= 0 THEN Err("Failed to compute bottom band height")
     ELSE extract(buffer, Region(0, row2End, width, bandHeight))
\* mutant: a segment that would hang over the right edge is left out
compositeBottomSegmentSkipOverhang(baseBuffer, segmentBuffer, left, top) ==
  IF IsError(baseBuffer) THEN baseBuffer
  ELSE IF IsError(segmentBuffer) THEN segmentBuffer
  ELSE IF left + segmentBuffer.width > baseBuffer.width THEN baseBuffer
  ELSE composite(baseBuffer, <<[input |-> segmentBuffer, left |-> left, top |-> top]>>)
\* mutant: the segment composited one row too high
compositeBottomSegmentRowAbove(baseBuffer, segmentBuffer, left, top) ==
  IF IsError(baseBuffer) THEN baseBuffer
  ELSE IF IsError(segmentBuffer) THEN segmentBuffer
  ELSE
  LET maxWidth == baseBuffer.width
      effectiveLeft == Max(0, Min(left, Max(0, maxWidth - segmentBuffer.width)))
  IN composite(baseBuffer,
               <<[input |-> segmentBuffer, left |-> effectiveLeft, top |-> top - 1]>>)

compositeBottomSegment(baseBuffer, segmentBuffer, left, top) ==
  IF IsError(baseBuffer) THEN baseBuffer
  ELSE IF IsError(segmentBuffer) THEN segmentBuffer
  ELSE IF baseBuffer.width = 0 \/ baseBuffer.height = 0
  THEN Err("Invalid base image dimensions")
  ELSE IF segmentBuffer.width = 0 \/ segmentBuffer.height = 0 THEN baseBuffer
  ELSE
  LET maxWidth == baseBuffer.width
      effectiveLeft == Max(0, Min(left, Max(0, maxWidth - segmentBuffer.width)))
      clampedWidth == Max(0, maxWidth - effectiveLeft)
  IN IF effectiveLeft + segmentBuffer.width > maxWidth
     THEN IF clampedWidth = 0 THEN baseBuffer
          ELSE composite(baseBuffer,
                 <<[input |-> extract(segmentBuffer,
                                      Region(0, 0, clampedWidth, segmentBuffer.height)),
                    left |-> effectiveLeft, top |-> top]>>)
     ELSE composite(baseBuffer,
                    <<[input |-> segmentBuffer, left |-> effectiveLeft, top |-> top]>>)
\* mutant: the left band cut as wide as the right third
extractLeftThirdWide(buffer) ==
  IF IsError(buffer) THEN buffer
  ELSE extract(buffer, Region(0, 0, buffer.width - ((2 * buffer.width) \div 3),
                              buffer.height))
\* mutant: the band never cut narrower than one column
extractLeftThirdAtLeastOne(buffer) ==
  IF IsError(buffer) THEN buffer
  ELSE
  LET width == buffer.width
      height == buffer.height
      leftWidth == Max(1, width \div 3)
  IN IF width = 0 \/ height = 0 THEN Err("Invalid image dimensions")
     ELSE IF leftWidth <= 0 THEN Err("Failed to compute left third width")
     ELSE extract(buffer, Region(0, 0, leftWidth, height))

extractLeftThird(buffer) ==
  IF IsError(buffer) THEN buffer
  ELSE
  LET width == buffer.width
      height == buffer.height
      leftWidth == width \div 3
  IN IF width = 0 \/ height = 0 THEN Err("Invalid image dimensions")
     ELSE IF leftWidth <= 0 THEN Err("Failed to compute left third width")
     ELSE extract(buffer, Region(0, 0, leftWidth, height))
\* mutant: the band cut from the top edge
extractBottomTileFromTop(columnBuffer, tileHeight) ==
  IF IsError(columnBuffer) THEN columnBuffer
  ELSE
  LET width == columnBuffer.width
      height == columnBuffer.height
      bandHeight == Min(tileHeight, height)
  IN IF width = 0 \/ height = 0 THEN Err("Invalid column dimensions")
     ELSE extract(columnBuffer, Region(0, 0, width, bandHeight))

extractBottomTile(columnBuffer, tileHeight) ==
  IF IsError(columnBuffer) THEN columnBuffer
  ELSE
  LET width == columnBuffer.width
      height == columnBuffer.height
      bandHeight == Min(tileHeight, height)
      top == Max(0, height - bandHeight)
  IN IF width = 0 \/ height = 0 THEN Err("Invalid column dimensions")
     ELSE extract(columnBuffer, Region(0, top, width, bandHeight))

\* the band as composited: resized in height only when it does not match
AdjustedColumn(baseBuffer, columnBuffer) ==
  IF columnBuffer.height # baseBuffer.height
  THEN resize(columnBuffer, columnBuffer.width, baseBuffer.height)
  ELSE columnBuffer
\* mutant: the band composited one column too far left
appendColumnOverlapping(baseBuffer, columnBuffer) ==
  IF IsError(baseBuffer) THEN baseBuffer
  ELSE IF IsError(columnBuffer) THEN columnBuffer
  ELSE
  LET adjustedColumnBuffer == AdjustedColumn(baseBuffer, columnBuffer)
      newWidth == baseBuffer.width + adjustedColumnBuffer.width
  IN composite(createWhiteBackground(newWidth, baseBuffer.height),
               <<[input |-> baseBuffer, left |-> 0, top |-> 0],
                 [input |-> adjustedColumnBuffer, left |-> baseBuffer.width - 1,
                  top |-> 0]>>)

appendColumn(baseBuffer, columnBuffer) ==
  IF IsError(baseBuffer) THEN baseBuffer
  ELSE IF IsError(columnBuffer) THEN columnBuffer
  ELSE IF baseBuffer.width = 0 \/ baseBuffer.height = 0
  THEN Err("Invalid base image dimensions")
  ELSE IF columnBuffer.width = 0 \/ columnBuffer.height = 0
  THEN Err("Invalid column image dimensions")
  ELSE
  LET adjustedColumnBuffer == AdjustedColumn(baseBuffer, columnBuffer)
      newWidth == baseBuffer.width + adjustedColumnBuffer.width
  IN composite(createWhiteBackground(newWidth, baseBuffer.height),
               <<[input |-> baseBuffer, left |-> 0, top |-> 0],
                 [input |-> adjustedColumnBuffer, left |-> baseBuffer.width, top |-> 0]>>)
\* mutant: the base shifted right by its own width, not by the band's
prependColumnShiftedByBase(baseBuffer, columnBuffer) ==
  IF IsError(baseBuffer) THEN baseBuffer
  ELSE IF IsError(columnBuffer) THEN columnBuffer
  ELSE
  LET adjustedColumnBuffer == AdjustedColumn(baseBuffer, columnBuffer)
      columnWidth == adjustedColumnBuffer.width
      newWidth == columnWidth + baseBuffer.width
  IN composite(createWhiteBackground(newWidth, baseBuffer.height),
               <<[input |-> adjustedColumnBuffer, left |-> 0, top |-> 0],
                 [input |-> baseBuffer, left |-> baseBuffer.width, top |-> 0]>>)

prependColumn(baseBuffer, columnBuffer) ==
  IF IsError(baseBuffer) THEN baseBuffer
  ELSE IF IsError(columnBuffer) THEN columnBuffer
  ELSE IF baseBuffer.width = 0 \/ baseBuffer.height = 0
  THEN Err("Invalid base image dimensions")
  ELSE IF columnBuffer.width = 0 \/ columnBuffer.height = 0
  THEN Err("Invalid column image dimensions")
  ELSE
  LET adjustedColumnBuffer == AdjustedColumn(baseBuffer, columnBuffer)
      columnWidth == adjustedColumnBuffer.width
      newWidth == columnWidth + baseBuffer.width
  IN composite(createWhiteBackground(newWidth, baseBuffer.height),
               <<[input |-> adjustedColumnBuffer, left |-> 0, top |-> 0],
                 [input |-> baseBuffer, left |-> columnWidth, top |-> 0]>>)

\* ------------------------------------------------------------------- callFal
\* the image the collaborator answers call number k with, as downloaded
Downloaded(k, size) ==
  [width |-> size[1], height |-> size[2],
   tiles |-> <<[left |-> 0, top |-> 0, width |-> size[1], height |-> size[2],
                src |-> [kind |-> "fal", call |-> k], sx |-> 0, sy |-> 0]>>]
\* mutant: the downloaded image handed on in the size it came in
NormalizeFalKeep(downloadedBuffer, expectedSize) == downloadedBuffer

\* the tail of callFal: the downloaded image forced to expectedSize
NormalizeFal(downloadedBuffer, expectedSize) ==
  IF \/ downloadedBuffer.width # expectedSize.width
     \/ downloadedBuffer.height # expectedSize.height
  THEN resize(downloadedBuffer, expectedSize.width, expectedSize.height)
  ELSE downloadedBuffer

\* ------------------------------------------------------------ request fields
DigitChars == <<"0", "1", "2", "3", "4", "5", "6", "7", "8", "9">>
IsDigit(c) == \E n \in 1..Len(DigitChars) : DigitChars[n] = c
DigitValue(c) == (CHOOSE n \in 1..Len(DigitChars) : DigitChars[n] = c) - 1

RECURSIVE LeadingDigits(_)
LeadingDigits(chars) ==
  IF chars # <<>> /\ IsDigit(Head(chars))
  THEN <<Head(chars)>> \o LeadingDigits(Tail(chars))
  ELSE <<>>

RECURSIVE DecimalValue(_)
DecimalValue(digits) ==
  IF digits = <<>> THEN 0
  ELSE 10 * DecimalValue(SubSeq(digits, 1, Len(digits) - 1))
       + DigitValue(digits[Len(digits)])

\* Number.parseInt(field, 10): an optional sign, then the leading digits;
\* NaN when there are none (also for an absent field, the empty sequence)
parseInt(field) ==
  LET signed == field # <<>> /\ Head(field) \in {"-", "+"}
      digits == LeadingDigits(IF signed THEN Tail(field) ELSE field)
  IN IF digits = <<>> THEN [nan |-> TRUE, value |-> 0]
     ELSE [nan |-> FALSE,
           value |-> IF signed /\ Head(field) = "-"
                     THEN 0 - DecimalValue(digits) ELSE DecimalValue(digits)]

\* Number.parseInt(req.body.iterations, 10) || ITERATIONS
RequestedIterations(field) ==
  LET parsed == parseInt(field)
  IN IF parsed.nan \/ parsed.value = 0 THEN ITERATIONS ELSE parsed.value

NoFile == [kind |-> "none"]

SeedSizes == ((1..MaxSeedW) \X (1..MaxSeedH)) \cup {ScenarioSeed}

SeedFiles ==
  {NoFile, [kind |-> "garbage"]}
    \cup {[kind |-> "image", width |-> s[1], height |-> s[2]] : s \in SeedSizes}

IterationFields ==
  {<<>>, <<"x">>, <<"0">>, <<"-", "1">>}
    \cup {<<DigitChars[n + 1]>> : n \in 1..MaxIterations}

Requests ==
  [file : SeedFiles, iterations : IterationFields,
   extendAllDirections : {"true", "false"}]

\* ----------------------------------------------------------------- the state
VARIABLES
  req,        \* the multipart request: file, iterations, extendAllDirections
  falKey,     \* process.env.FAL_KEY is set
  falNative,  \* the collaborator answers in the upload's size or in its own
  pc,         \* where the handler (or the invoked function) stands
  es,         \* the locals of extendSeed
  eb,         \* the locals of extendBottomRow
  steps,      \* the steps array
  fal,        \* callFal: calls issued, the image and expectedSize in flight
  thrown,     \* the Error in flight, "" when none
  res,        \* the response sent
  harness,    \* extendBottomRow invoked directly: invocations, first canvas
  unit,       \* a helper applied to one raster: op, input, output
  ui          \* the browser client: React state, refs and pending callbacks

vars == <<req, falKey, falNative, pc, es, eb, steps, fal, thrown, res, harness, unit, ui>>

NoResponse == [status |-> 0, body |-> [error |-> ""]]

NoSeedFrame ==
  [seedBuffer |-> NoBuffer, seedMeta |-> [width |-> 0, height |-> 0],
   expectedSize |-> [width |-> 0, height |-> 0],
   iterations |-> 0, extendBottom |-> FALSE, index |-> 0,
   rightColumns |-> <<>>, rightContextBuffer |-> NoBuffer, rightAccumulated |-> NoBuffer,
   leftColumns |-> <<>>, leftContextBuffer |-> NoBuffer, leftAccumulated |-> NoBuffer,
   finalBuffer |-> NoBuffer, leftMeta |-> [width |-> 0, height |-> 0]]

NoBottomFrame ==
  [baseBuffer |-> NoBuffer, seedMeta |-> [width |-> 0, height |-> 0],
   finalWidth |-> 0, finalHeight |-> 0, tileWidth |-> 0, tileHeight |-> 0,
   blockWidth |-> 0, workingBuffer |-> NoBuffer, context |-> NoBuffer,
   currentOffset |-> 0, startOffset |-> 0, horizontalCalls |-> 0,
   result |-> NoBuffer]

NoCall == [calls |-> 0, slid |-> NoBuffer, expectedSize |-> [width |-> 0, height |-> 0]]

NoUnit ==
  [op |-> "none", input |-> NoBuffer, band |-> NoBuffer, left |-> 0, top |-> 0,
   tileHeight |-> 0, output |-> NoBuffer]

NoHarness == [invocations |-> 0, canvas |-> NoBuffer]

\* a band of the given size with content of its own
Column(width, height) ==
  [width |-> width, height |-> height,
   tiles |-> <<[left |-> 0, top |-> 0, width |-> width, height |-> height,
                src |-> [kind |-> "column"], sx |-> 0, sy |-> 0]>>]

\* an image of the given size with content of its own
Canvas(width, height) ==
  [width |-> width, height |-> height,
   tiles |-> <<[left |-> 0, top |-> 0, width |-> width, height |-> height,
                src |-> [kind |-> "canvas"], sx |-> 0, sy |-> 0]>>]
\* ---------------------------------------------------------------- the client
\* The browser client (src/client/src/App.jsx).  The lengths the viewer
\* computes (pan, offsets, viewport, steps) are real numbers; they are kept
\* exactly, as integers in units of 1/Sub pixel.  Image sizes and element
\* sizes are whole pixels.  The prompt and the extendAllDirections checkbox
\* only feed the request body, the steps trace and the error text only feed
\* the status line: they are left out.  What the server answers is an input.
Sub == 8 * 27 * 5

\* a data URL, by what it shows: the attached file f, the server's copy of
\* the seed f, a canvas grown from f by left / right columns and down rows,
\* the seed generated from the prompt, /preview.png
NoImage == [kind |-> "", of |-> 0, left |-> 0, right |-> 0, down |-> 0]
ImageOf(kind, f) == [NoImage EXCEPT !.kind = kind, !.of = f]

\* null, for seedPreview, serverSeed, extended and previewAsset
Null == [width |-> 0, height |-> 0, image |-> NoImage, seedOffset |-> 0]

\* the file generated from the prompt: 'seed-generated.png'
GeneratedFile == MaxFiles + 1

\* the pixel size of a file's image
FileSize(f) == IF f = GeneratedFile THEN <<6, 6>> ELSE <<6 * f, 6>>

\* the pixel size of /preview.png
PreviewSize == <<1, 2>>

\* the sizes the canvas element is measured at: as high as wide, twice as
\* high as wide
ElementSizes == {<<1, 1>>, <<1, 2>>}

\* where the pointer moves to, relative to where it went down
PointerMoves == {<<-1, -1>>, <<0, 1>>, <<1, 0>>}

\* payload.seed of /api/extend for the uploaded file f
SeedPayload(f) ==
  [width |-> FileSize(f)[1], height |-> FileSize(f)[2],
   image |-> ImageOf("seed", f), seedOffset |-> 0]

\* payload.extended of /api/extend for the uploaded file f: the canvas grown
\* by left and right bands of a third of the seed's width and by down rows
\* of a third of its height, seedOffset = leftExtensionWidth
ExtendedPayload(f, left, right, down) ==
  [width |-> FileSize(f)[1] + (left + right) * (FileSize(f)[1] \div 3),
   height |-> FileSize(f)[2] + down * (FileSize(f)[2] \div 3),
   image |-> [kind |-> "extended", of |-> f, left |-> left, right |-> right, down |-> down],
   seedOffset |-> left * (FileSize(f)[1] \div 3)]

\* the canvases the server can answer with: rightward growth only, or
\* growth to both sides and down
ExtendedPayloads(f) ==
  {ExtendedPayload(f, 0, g, 0) : g \in 1..MaxGrowth}
    \cup {ExtendedPayload(f, g, g, d) : g \in 1..MaxGrowth, d \in 0..MaxDown}

\* the state of App after mount, outside preview mode, before the canvas
\* element is measured
NoUi ==
  [isPreviewMode |-> FALSE,
   seedFile |-> 0,                      \* 0 is null, else the file attached
   seedPreview |-> Null, serverSeed |-> Null, extended |-> Null,
   previewAsset |-> Null,
   isLoading |-> FALSE,
   pan |-> [x |-> 0, y |-> 0],
   isDragging |-> FALSE, seedOrigin |-> "",
   canvasSize |-> [width |-> 0, height |-> 0],
   pointerRef |-> [active |-> FALSE, origin |-> [x |-> 0, y |-> 0],
                   panStart |-> [x |-> 0, y |-> 0]],
   lastImageKeyRef |-> NoImage,
   \* handleExtend: where it awaits and the file it works on
   extend |-> [pc |-> "idle", workingSeedFile |-> 0],
   readers |-> {},                       \* files a FileReader is reading
   previewLoad |-> FALSE,               \* loadImageInfo('/preview.png') pending
   \* the dependencies the effects last ran with
   deps |-> [seedFile |-> 0, maxOffsetX |-> 0, maxOffsetY |-> 0,
             activeImage |-> Null, defaultOffsetX |-> 0, defaultOffsetY |-> 0]]

\* mutant: Math.max(value, min) alone
clampFromBelow(value, min, max) == Max(value, min)

clamp(value, min, max) == Min(Max(value, min), max)

activeImageOf(u) ==
  IF u.extended # Null THEN u.extended
  ELSE IF u.isPreviewMode /\ u.previewAsset # Null THEN u.previewAsset
  ELSE IF u.serverSeed # Null THEN u.serverSeed
  ELSE IF u.seedPreview # Null THEN u.seedPreview
  ELSE Null

imageMetaOf(u) ==
  LET activeImage == activeImageOf(u)
  IN IF activeImage.width > 0 /\ activeImage.height > 0
       THEN [width |-> activeImage.width, height |-> activeImage.height]
       ELSE [width |-> 0, height |-> 0]

seedWidthOf(u) ==
  IF u.extended # Null /\ u.serverSeed.width > 0 THEN Sub * u.serverSeed.width
  ELSE IF u.extended # Null /\ u.seedPreview.width > 0 THEN Sub * u.seedPreview.width
  ELSE IF u.isPreviewMode /\ u.previewAsset # Null
    THEN Max(Sub, (Sub * u.previewAsset.width) \div 3)
  ELSE IF u.serverSeed.width > 0 THEN Sub * u.serverSeed.width
  ELSE IF u.seedPreview.width > 0 THEN Sub * u.seedPreview.width
  ELSE IF imageMetaOf(u).width > 0 THEN Sub * imageMetaOf(u).width
  ELSE Sub

seedHeightOf(u) ==
  IF u.extended # Null /\ u.serverSeed.height > 0 THEN Sub * u.serverSeed.height
  ELSE IF u.extended # Null /\ u.seedPreview.height > 0 THEN Sub * u.seedPreview.height
  ELSE IF u.isPreviewMode /\ u.previewAsset # Null
    THEN Max(Sub, (Sub * u.previewAsset.height) \div 3)
  ELSE IF u.serverSeed.height > 0 THEN Sub * u.serverSeed.height
  ELSE IF u.seedPreview.height > 0 THEN Sub * u.seedPreview.height
  ELSE IF imageMetaOf(u).height > 0 THEN Sub * imageMetaOf(u).height
  ELSE Sub

defaultOffsetXOf(u) ==
  IF u.extended # Null THEN Sub * u.extended.seedOffset
  ELSE IF u.isPreviewMode /\ u.previewAsset # Null
    THEN Max(0, (Sub * imageMetaOf(u).width - seedWidthOf(u)) \div 2)
  ELSE 0

defaultOffsetYOf(u) ==
  IF u.isPreviewMode
    THEN Max(0, (Sub * imageMetaOf(u).height - seedHeightOf(u)) \div 2)
    ELSE 0

\* scale = canvasWidth / seedWidth, as the fraction num / den
scaleOf(u) ==
  IF seedWidthOf(u) > 0 /\ u.canvasSize.width > 0
    THEN [num |-> Sub * u.canvasSize.width, den |-> seedWidthOf(u)]
    ELSE [num |-> 1, den |-> 1]

viewportWidthOf(u) == (Sub * u.canvasSize.width * scaleOf(u).den) \div scaleOf(u).num
viewportHeightOf(u) == (Sub * u.canvasSize.height * scaleOf(u).den) \div scaleOf(u).num

maxOffsetXOf(u) ==
  IF imageMetaOf(u).width > 0
    THEN Max(0, Sub * imageMetaOf(u).width - viewportWidthOf(u))
    ELSE 0

maxOffsetYOf(u) ==
  IF imageMetaOf(u).height > 0
    THEN Max(0, Sub * imageMetaOf(u).height - viewportHeightOf(u))
    ELSE 0

canvasImageOf(u) ==
  IF u.extended.image # NoImage THEN u.extended.image
  ELSE IF u.serverSeed.image # NoImage THEN u.serverSeed.image
  ELSE IF u.seedPreview.image # NoImage THEN u.seedPreview.image
  ELSE IF u.previewAsset.image # NoImage THEN u.previewAsset.image
  ELSE NoImage

stepXOf(u) == IF viewportWidthOf(u) > 0 THEN viewportWidthOf(u) \div 6 ELSE 0
stepYOf(u) == IF viewportHeightOf(u) > 0 THEN viewportHeightOf(u) \div 6 ELSE 0

\* what this render computes from the current state
activeImage == activeImageOf(ui)
imageMeta == imageMetaOf(ui)
defaultOffsetX == defaultOffsetXOf(ui)
defaultOffsetY == defaultOffsetYOf(ui)
scale == scaleOf(ui)
maxOffsetX == maxOffsetXOf(ui)
maxOffsetY == maxOffsetYOf(ui)
canvasImage == canvasImageOf(ui)
stepX == stepXOf(ui)
stepY == stepYOf(ui)

\* the dependency values of this render
RenderDeps ==
  [seedFile |-> ui.seedFile, maxOffsetX |-> maxOffsetX, maxOffsetY |-> maxOffsetY,
   activeImage |-> activeImage, defaultOffsetX |-> defaultOffsetX,
   defaultOffsetY |-> defaultOffsetY]

\* no effect is waiting to run: the last commit saw these dependencies
EffectsHaveRun == ui.deps = RenderDeps

Init ==
  /\ req \in Requests
  /\ falKey \in BOOLEAN
  /\ falNative \in {"match", "square"}
  /\ pc = "request"
  /\ es = NoSeedFrame
  /\ eb = NoBottomFrame
  /\ steps = <<>>
  /\ fal = NoCall
  /\ thrown = ""
  /\ res = NoResponse
  /\ harness = NoHarness
  /\ unit = NoUnit
  /\ ui = NoUi

\* an Error thrown inside extendSeed / extendBottomRow: nothing below the
\* throw runs, the caller's catch is next
Throw(msg) ==
  /\ pc' = "failed"
  /\ thrown' = msg
  /\ UNCHANGED <<ui, req, falKey, falNative, es, eb, steps, fal, res, harness, unit>>
\* ------------------------------------------------------------------- callFal
\* callFal up to fal.subscribe: the key check, the upload, the request
\* mutant: the credential is not looked at
FalKeyIgnored == FALSE

FalKeyMissing == ~falKey

IssueCall(slidBuffer, expectedSize) ==
  [calls |-> fal.calls + 1, slid |-> slidBuffer, expectedSize |-> expectedSize]

\* what the collaborator can answer: an image, an empty image list, a failure
FalOutcomes == {"image", "no images", "failed"}

FalErrorMessage(outcome) ==
  IF outcome = "no images" THEN "FAL API returned no images" ELSE "fal request failed"

\* the size of the image the collaborator sends back
DownloadSize == IF falNative = "match" THEN <<fal.slid.width, fal.slid.height>> ELSE FalSquare

\* callFal from the download on
FalBuffer == NormalizeFal(Downloaded(fal.calls, DownloadSize), fal.expectedSize)
\* mutant: the error answer also hands out what had been grown so far
ErrorResponsePartial(msg) ==
  [status |-> 500,
   body |-> [error |-> IF msg = "" THEN "Failed to extend image" ELSE msg,
             extended |-> es.rightAccumulated,
             steps |-> steps]]

\* ---------------------------------------------------------------- responses
\* res.status(500).json({ error: error.message || 'Failed to extend image' })
ErrorResponse(msg) ==
  [status |-> 500,
   body |-> [error |-> IF msg = "" THEN "Failed to extend image" ELSE msg]]

MissingSeedResponse == [status |-> 400, body |-> [error |-> "Missing seed image upload"]]

\* step.stage || null, with the buffers of the record left out
ResponseStep(step) ==
  [iteration |-> step.iteration, direction |-> step.direction,
   stage |-> IF step.stage = "none" THEN "null" ELSE step.stage]
\* mutant: the operands of the subtraction swapped
LeftExtensionWidthSwapped(leftMeta, seedMeta) == Max(0, seedMeta.width - leftMeta.width)

\* extendSeed's return value
LeftExtensionWidth(leftMeta, seedMeta) == Max(0, leftMeta.width - seedMeta.width)

\* res.json({ seed, extended, steps }) from extendSeed's result
SuccessResponse(seed, extended, stepList, leftExtensionWidth) ==
  [status |-> 200,
   body |-> [seed |-> [width |-> seed.width, height |-> seed.height, image |-> seed],
             extended |-> [width |-> extended.width, height |-> extended.height,
                           image |-> extended, seedOffset |-> leftExtensionWidth],
             steps |-> [i \in 1..Len(stepList) |-> ResponseStep(stepList[i])]]]

\* ---------------------------------------------------- /api/extend, extendSeed
\* the handler up to the first loop: the file check, the fields, the seed
HandleExtend ==
  /\ pc = "request"
  /\ IF req.file = NoFile
     THEN /\ res' = MissingSeedResponse
          /\ pc' = "responded"
          /\ UNCHANGED <<ui, req, falKey, falNative, es, eb, steps, fal, thrown, harness, unit>>
     ELSE LET iterations == RequestedIterations(req.iterations)
              extendAllDirections == (req.extendAllDirections = "true")
              seedBuffer == ensureRgbPng(req.file)
          IN IF IsError(seedBuffer) THEN Throw(seedBuffer.error)
             ELSE /\ es' = [NoSeedFrame EXCEPT
                              !.seedBuffer = seedBuffer,
                              !.seedMeta = [width |-> seedBuffer.width,
                                            height |-> seedBuffer.height],
                              !.expectedSize = [width |-> seedBuffer.width,
                                                height |-> seedBuffer.height],
                              !.iterations = iterations,
                              !.extendBottom = extendAllDirections,
                              !.rightContextBuffer = seedBuffer,
                              !.rightAccumulated = seedBuffer]
                  /\ steps' = <<>>
                  /\ pc' = "right"
                  /\ UNCHANGED <<ui, req, falKey, falNative, eb, fal, thrown, res, harness, unit>>
\* mutant: the record numbered by the loop index, as before the leftward loop
StepRecordByIndex(direction, stage, column) ==
  [iteration |-> es.index + 1, direction |-> direction, stage |-> stage,
   column |-> column]

\* one step record, the slid / fal / extended buffers left out (never read)
StepRecord(direction, stage, column) ==
  [iteration |-> Len(steps) + 1, direction |-> direction, stage |-> stage,
   column |-> column]

\* the rightward loop body up to the await on the collaborator
RightIterate ==
  /\ pc = "right"
  /\ es.index < es.iterations
  /\ LET slidBuffer == slideImageLeft(es.rightContextBuffer)
     IN IF IsError(slidBuffer) THEN Throw(slidBuffer.error)
        ELSE IF FalKeyMissing THEN Throw("FAL_KEY is not configured")
        ELSE /\ fal' = IssueCall(slidBuffer, es.expectedSize)
             /\ pc' = "rightAwait"
             /\ UNCHANGED <<ui, req, falKey, falNative, es, eb, steps, thrown, res, harness, unit>>
\* mutant: a synthesis call that did not give an image is issued once more
RightFalReturnRetry ==
  /\ pc = "rightAwait"
  /\ \E outcome \in FalOutcomes :
       IF outcome # "image"
       THEN IF fal.calls = Len(steps) + 1
            THEN /\ fal' = [fal EXCEPT !.calls = @ + 1]
                 /\ UNCHANGED <<ui, req, falKey, falNative, pc, es, eb, steps, thrown, res,
                                harness, unit>>
            ELSE Throw(FalErrorMessage(outcome))
       ELSE LET falBuffer == FalBuffer
                newColumnBuffer == extractRightThird(falBuffer)
                accumulated == appendColumn(es.rightAccumulated, newColumnBuffer)
            IN IF IsError(accumulated) THEN Throw(accumulated.error)
               ELSE /\ es' = [es EXCEPT !.rightAccumulated = accumulated,
                                        !.rightContextBuffer = falBuffer,
                                        !.rightColumns = Append(@, newColumnBuffer),
                                        !.index = @ + 1]
                    /\ steps' = Append(steps, StepRecord("right", "none", newColumnBuffer))
                    /\ pc' = "right"
                    /\ UNCHANGED <<ui, req, falKey, falNative, eb, fal, thrown, res, harness, unit>>

\* the rightward loop body from the collaborator's answer on
RightFalReturn ==
  /\ pc = "rightAwait"
  /\ \E outcome \in FalOutcomes :
       IF outcome # "image" THEN Throw(FalErrorMessage(outcome))
       ELSE LET falBuffer == FalBuffer
                newColumnBuffer == extractRightThird(falBuffer)
                accumulated == appendColumn(es.rightAccumulated, newColumnBuffer)
            IN IF IsError(accumulated) THEN Throw(accumulated.error)
               ELSE /\ es' = [es EXCEPT !.rightAccumulated = accumulated,
                                        !.rightContextBuffer = falBuffer,
                                        !.rightColumns = Append(@, newColumnBuffer),
                                        !.index = @ + 1]
                    /\ steps' = Append(steps, StepRecord("right", "none", newColumnBuffer))
                    /\ pc' = "right"
                    /\ UNCHANGED <<ui, req, falKey, falNative, eb, fal, thrown, res, harness, unit>>
\* mutant: with the downward phase asked for, it starts right after the
\* rightward loop, on the rightward accumulator
RightDoneThenDown ==
  /\ pc = "right"
  /\ ~(es.index < es.iterations)
  /\ es' = [es EXCEPT !.index = 0,
                      !.leftColumns = <<>>,
                      !.leftContextBuffer = es.seedBuffer,
                      !.leftAccumulated = es.seedBuffer]
  /\ IF es.extendBottom
     THEN /\ eb' = [NoBottomFrame EXCEPT !.baseBuffer = es.rightAccumulated,
                                         !.seedMeta = es.seedMeta]
          /\ pc' = "bottomBegin"
     ELSE /\ eb' = eb
          /\ pc' = "left"
  /\ UNCHANGED <<ui, req, falKey, falNative, steps, fal, thrown, res, harness, unit>>

\* the rightward loop is over: the leftward loop starts from the seed again
RightDone ==
  /\ pc = "right"
  /\ ~(es.index < es.iterations)
  /\ es' = [es EXCEPT !.index = 0,
                      !.leftColumns = <<>>,
                      !.leftContextBuffer = es.seedBuffer,
                      !.leftAccumulated = es.seedBuffer]
  /\ pc' = "left"
  /\ UNCHANGED <<ui, req, falKey, falNative, eb, steps, fal, thrown, res, harness, unit>>

LeftIterate ==
  /\ pc = "left"
  /\ es.index < es.iterations
  /\ LET slidBuffer == slideImageRight(es.leftContextBuffer)
     IN IF IsError(slidBuffer) THEN Throw(slidBuffer.error)
        ELSE IF FalKeyMissing THEN Throw("FAL_KEY is not configured")
        ELSE /\ fal' = IssueCall(slidBuffer, es.expectedSize)
             /\ pc' = "leftAwait"
             /\ UNCHANGED <<ui, req, falKey, falNative, es, eb, steps, thrown, res, harness, unit>>

LeftFalReturn ==
  /\ pc = "leftAwait"
  /\ \E outcome \in FalOutcomes :
       IF outcome # "image" THEN Throw(FalErrorMessage(outcome))
       ELSE LET falBuffer == FalBuffer
                newColumnBuffer == extractLeftThird(falBuffer)
                accumulated == prependColumn(es.leftAccumulated, newColumnBuffer)
            IN IF IsError(accumulated) THEN Throw(accumulated.error)
               ELSE /\ es' = [es EXCEPT !.leftAccumulated = accumulated,
                                        !.leftContextBuffer = falBuffer,
                                        !.leftColumns = <<newColumnBuffer>> \o @,
                                        !.index = @ + 1]
                    /\ steps' = Append(steps, StepRecord("left", "none", newColumnBuffer))
                    /\ pc' = "left"
                    /\ UNCHANGED <<ui, req, falKey, falNative, eb, fal, thrown, res, harness, unit>>
\* mutant: the rightward bands appended last-acquired first
RECURSIVE MergeColumnsReversed(_, _)
MergeColumnsReversed(finalBuffer, columns) ==
  IF columns = <<>> THEN finalBuffer
  ELSE MergeColumnsReversed(appendColumn(finalBuffer, columns[Len(columns)]),
                            SubSeq(columns, 1, Len(columns) - 1))

\* finalBuffer = leftAccumulated, then appendColumn for each of rightColumns
RECURSIVE MergeColumns(_, _)
MergeColumns(finalBuffer, columns) ==
  IF columns = <<>> THEN finalBuffer
  ELSE MergeColumns(appendColumn(finalBuffer, Head(columns)), Tail(columns))

\* the leftward loop is over: the merge, then the downward phase if asked for
Merge ==
  /\ pc = "left"
  /\ ~(es.index < es.iterations)
  /\ LET finalBuffer == MergeColumns(es.leftAccumulated, es.rightColumns)
     IN IF IsError(finalBuffer) THEN Throw(finalBuffer.error)
        ELSE /\ es' = [es EXCEPT !.finalBuffer = finalBuffer,
                                 !.leftMeta = [width |-> es.leftAccumulated.width,
                                               height |-> es.leftAccumulated.height]]
             /\ IF es.extendBottom
                THEN /\ eb' = [NoBottomFrame EXCEPT !.baseBuffer = finalBuffer,
                                                    !.seedMeta = es.seedMeta]
                     /\ pc' = "bottomBegin"
                ELSE /\ eb' = eb
                     /\ pc' = "return"
             /\ UNCHANGED <<ui, req, falKey, falNative, steps, fal, thrown, res, harness, unit>>
\* mutant: the canvas extendBottomRow returned is not taken over
BottomReturnedDropped ==
  /\ pc = "bottomReturn"
  /\ pc' = "return"
  /\ UNCHANGED <<ui, req, falKey, falNative, es, eb, steps, fal, thrown, res, harness, unit>>

\* extendBottomRow has returned into extendSeed
BottomReturned ==
  /\ pc = "bottomReturn"
  /\ es' = [es EXCEPT !.finalBuffer = eb.result]
  /\ pc' = "return"
  /\ UNCHANGED <<ui, req, falKey, falNative, eb, steps, fal, thrown, res, harness, unit>>

\* extendSeed returns and the handler answers
Respond ==
  /\ pc = "return"
  /\ res' = SuccessResponse(es.seedBuffer, es.finalBuffer, steps,
                            LeftExtensionWidth(es.leftMeta, es.seedMeta))
  /\ pc' = "responded"
  /\ UNCHANGED <<ui, req, falKey, falNative, es, eb, steps, fal, thrown, harness, unit>>

\* the handler's catch
CatchRespond ==
  /\ pc = "failed"
  /\ res' = ErrorResponse(thrown)
  /\ pc' = "responded"
  /\ UNCHANGED <<ui, req, falKey, falNative, es, eb, steps, fal, thrown, harness, unit>>
\* mutant: the strip added is as high as the band extractBottomThird cuts
GrownCanvasByBand(baseBuffer, tileHeight) ==
  composite(createWhiteBackground(baseBuffer.width,
              baseBuffer.height + (baseBuffer.height - ((2 * baseBuffer.height) \div 3))),
            <<[input |-> baseBuffer, left |-> 0, top |-> 0]>>)

\* the canvas one tile higher, the new strip white
GrownCanvas(baseBuffer, tileHeight) ==
  composite(createWhiteBackground(baseBuffer.width, baseBuffer.height + tileHeight),
            <<[input |-> baseBuffer, left |-> 0, top |-> 0]>>)

\* ------------------------------------------------------------ extendBottomRow
\* extendBottomRow up to the await on the vertical synthesis call
ExtendBottomRowBegin ==
  /\ pc = "bottomBegin"
  /\ LET baseBuffer == eb.baseBuffer
         seedWidth == eb.seedMeta.width
         seedHeight == eb.seedMeta.height
         finalWidth == baseBuffer.width
         finalHeight == baseBuffer.height
         tileWidth == seedWidth \div 3
         tileHeight == seedHeight \div 3
         blockWidth == Min(tileWidth * 3, finalWidth)
         workingBuffer == GrownCanvas(baseBuffer, tileHeight)
         context == extract(workingBuffer, Region(0, 0, blockWidth, finalHeight))
         slidUp == slideImageUp(context)
     IN IF \/ finalWidth = 0 \/ finalHeight = 0 \/ tileWidth <= 0 \/ tileHeight <= 0
           \/ blockWidth <= 0
        THEN /\ eb' = [eb EXCEPT !.result = baseBuffer]
             /\ pc' = "bottomReturn"
             /\ UNCHANGED <<ui, req, falKey, falNative, es, steps, fal, thrown, res, harness, unit>>
        ELSE IF IsError(slidUp) THEN Throw(slidUp.error)
        ELSE IF FalKeyMissing THEN Throw("FAL_KEY is not configured")
        ELSE /\ eb' = [eb EXCEPT !.finalWidth = finalWidth,
                                 !.finalHeight = finalHeight,
                                 !.tileWidth = tileWidth,
                                 !.tileHeight = tileHeight,
                                 !.blockWidth = blockWidth,
                                 !.workingBuffer = workingBuffer,
                                 !.context = context]
             /\ fal' = IssueCall(slidUp, [width |-> context.width,
                                          height |-> context.height])
             /\ pc' = "verticalAwait"
             /\ UNCHANGED <<ui, req, falKey, falNative, es, steps, thrown, res, harness, unit>>

\* the vertical step from the collaborator's answer to the head of the loop
VerticalFalReturn ==
  /\ pc = "verticalAwait"
  /\ \E outcome \in FalOutcomes :
       IF outcome # "image" THEN Throw(FalErrorMessage(outcome))
       ELSE LET falVertical == FalBuffer
                bottomBand == extractBottomThird(falVertical)
                workingBuffer ==
                  compositeBottomSegment(eb.workingBuffer, bottomBand, 0, eb.finalHeight)
                currentOffset ==
                  Min(IF bottomBand.width = 0 THEN eb.blockWidth ELSE bottomBand.width,
                      eb.finalWidth)
            IN IF IsError(workingBuffer) THEN Throw(workingBuffer.error)
               ELSE /\ eb' = [eb EXCEPT !.workingBuffer = workingBuffer,
                                        !.context = falVertical,
                                        !.currentOffset = currentOffset,
                                        !.startOffset = currentOffset]
                    /\ steps' = Append(steps, StepRecord("down", "vertical", bottomBand))
                    /\ pc' = "horizontal"
                    /\ UNCHANGED <<ui, req, falKey, falNative, es, fal, thrown, res, harness, unit>>

\* the horizontal loop body up to the await on the collaborator
HorizontalIterate ==
  /\ pc = "horizontal"
  /\ eb.currentOffset < eb.finalWidth
  /\ LET slid == slideImageLeft(eb.context)
     IN IF IsError(slid) THEN Throw(slid.error)
        ELSE IF FalKeyMissing THEN Throw("FAL_KEY is not configured")
        ELSE /\ fal' = IssueCall(slid, [width |-> slid.width, height |-> slid.height])
             /\ eb' = [eb EXCEPT !.horizontalCalls = @ + 1]
             /\ pc' = "horizontalAwait"
             /\ UNCHANGED <<ui, req, falKey, falNative, es, steps, thrown, res, harness, unit>>
\* mutant: the step clamped to the width left once this tile is placed
IncrementAfterTile(bottomTileWidth, tileWidth, finalWidth, currentOffset) ==
  LET tile == IF bottomTileWidth = 0 THEN tileWidth ELSE bottomTileWidth
  IN Min(tile, Max(0, finalWidth - currentOffset - tile))

\* mutant: one step takes all the width that is left
IncrementWhole(bottomTileWidth, tileWidth, finalWidth, currentOffset) ==
  Max(0, finalWidth - currentOffset)

\* mutant: the tile width, not clamped to the width that is left
IncrementUnclamped(bottomTileWidth, tileWidth, finalWidth, currentOffset) ==
  IF bottomTileWidth = 0 THEN tileWidth ELSE bottomTileWidth

\* Math.min(bottomTileMeta.width || tileWidth, availableWidth)
Increment(bottomTileWidth, tileWidth, finalWidth, currentOffset) ==
  LET availableWidth == Max(0, finalWidth - currentOffset)
  IN Min(IF bottomTileWidth = 0 THEN tileWidth ELSE bottomTileWidth, availableWidth)

\* the horizontal loop body from the collaborator's answer on
HorizontalFalReturn ==
  /\ pc = "horizontalAwait"
  /\ \E outcome \in FalOutcomes :
       IF outcome # "image" THEN Throw(FalErrorMessage(outcome))
       ELSE LET falHorizontal == FalBuffer
                newColumn == extractRightThird(falHorizontal)
                bottomTile == extractBottomTile(newColumn, eb.tileHeight)
                workingBuffer ==
                  compositeBottomSegment(eb.workingBuffer, bottomTile,
                                         eb.currentOffset, eb.finalHeight)
                increment == Increment(bottomTile.width, eb.tileWidth,
                                       eb.finalWidth, eb.currentOffset)
            IN IF IsError(workingBuffer) THEN Throw(workingBuffer.error)
               ELSE /\ steps' = Append(steps, StepRecord("down", "horizontal", bottomTile))
                    /\ IF increment = 0
                       THEN /\ eb' = [eb EXCEPT !.workingBuffer = workingBuffer,
                                                !.context = falHorizontal,
                                                !.result = workingBuffer]
                            /\ pc' = "bottomReturn"
                       ELSE /\ eb' = [eb EXCEPT !.workingBuffer = workingBuffer,
                                                !.context = falHorizontal,
                                                !.currentOffset = @ + increment]
                            /\ pc' = "horizontal"
                    /\ UNCHANGED <<ui, req, falKey, falNative, es, fal, thrown, res, harness, unit>>

\* the loop guard fails: return workingBuffer
HorizontalDone ==
  /\ pc = "horizontal"
  /\ ~(eb.currentOffset < eb.finalWidth)
  /\ eb' = [eb EXCEPT !.result = eb.workingBuffer]
  /\ pc' = "bottomReturn"
  /\ UNCHANGED <<ui, req, falKey, falNative, es, steps, fal, thrown, res, harness, unit>>

\* -------------------------------------------------------------- specifications
Next ==
  \/ HandleExtend
  \/ RightIterate
  \/ RightFalReturn
  \/ RightDone
  \/ LeftIterate
  \/ LeftFalReturn
  \/ Merge
  \/ ExtendBottomRowBegin
  \/ VerticalFalReturn
  \/ HorizontalIterate
  \/ HorizontalFalReturn
  \/ HorizontalDone
  \/ BottomReturned
  \/ Respond
  \/ CatchRespond

Spec == Init /\ [][Next]_vars

\* extendBottomRow invoked directly, MaxInvocations times in sequence, each
\* time on the canvas the previous invocation returned
InitBottom ==
  /\ req = [file |-> NoFile, iterations |-> <<>>, extendAllDirections |-> "true"]
  /\ falKey \in BOOLEAN
  /\ falNative \in {"match", "square"}
  /\ pc = "bottomBegin"
  /\ es = NoSeedFrame
  /\ \E cw \in 1..MaxCanvasW, ch \in 1..MaxCanvasH, s \in (1..MaxSeedW) \X (1..MaxSeedH) :
       /\ eb = [NoBottomFrame EXCEPT !.baseBuffer = Canvas(cw, ch),
                                     !.seedMeta = [width |-> s[1], height |-> s[2]]]
       /\ harness = [invocations |-> 1, canvas |-> Canvas(cw, ch)]
  /\ steps = <<>>
  /\ fal = NoCall
  /\ thrown = ""
  /\ res = NoResponse
  /\ unit = NoUnit
  /\ ui = NoUi

InvokeAgain ==
  /\ pc = "bottomReturn"
  /\ harness.invocations < MaxInvocations
  /\ eb' = [NoBottomFrame EXCEPT !.baseBuffer = eb.result, !.seedMeta = eb.seedMeta]
  /\ harness' = [harness EXCEPT !.invocations = @ + 1]
  /\ pc' = "bottomBegin"
  /\ UNCHANGED <<ui, req, falKey, falNative, es, steps, fal, thrown, res, unit>>

NextBottom ==
  \/ ExtendBottomRowBegin
  \/ VerticalFalReturn
  \/ HorizontalIterate
  \/ HorizontalFalReturn
  \/ HorizontalDone
  \/ InvokeAgain

SpecBottom == InitBottom /\ [][NextBottom]_vars

\* one helper applied to one raster
InitHelpers ==
  /\ req = [file |-> NoFile, iterations |-> <<>>, extendAllDirections |-> "false"]
  /\ falKey = TRUE
  /\ falNative = "match"
  /\ pc = "unit"
  /\ es = NoSeedFrame
  /\ eb = NoBottomFrame
  /\ steps = <<>>
  /\ fal = NoCall
  /\ thrown = ""
  /\ res = NoResponse
  /\ harness = NoHarness
  /\ \E w \in 1..MaxUnitW, h \in 1..MaxUnitH :
       unit = [NoUnit EXCEPT !.input = Canvas(w, h)]
  /\ ui = NoUi

Apply(op, output) ==
  /\ pc = "unit"
  /\ unit.op = "none"
  /\ unit' = [unit EXCEPT !.op = op, !.output = output]
  /\ UNCHANGED <<ui, req, falKey, falNative, pc, es, eb, steps, fal, thrown, res, harness>>

ApplySlideImageLeft == Apply("slideImageLeft", slideImageLeft(unit.input))

ApplySlideImageRight == Apply("slideImageRight", slideImageRight(unit.input))

ApplyExtractRightThird == Apply("extractRightThird", extractRightThird(unit.input))

ApplyExtractLeftThird == Apply("extractLeftThird", extractLeftThird(unit.input))

ApplySlideImageUp == Apply("slideImageUp", slideImageUp(unit.input))

ApplyExtractBottomThird == Apply("extractBottomThird", extractBottomThird(unit.input))

\* a helper applied to the raster and a band, at an offset where it takes one
ApplyTo(op, band, left, top, output) ==
  /\ pc = "unit"
  /\ unit.op = "none"
  /\ unit' = [unit EXCEPT !.op = op, !.band = band, !.left = left, !.top = top,
                          !.output = output]
  /\ UNCHANGED <<ui, req, falKey, falNative, pc, es, eb, steps, fal, thrown, res, harness>>

Bands == {Column(w, h) : w \in 1..MaxBandW, h \in 1..MaxBandH}

ApplyAppendColumn ==
  \E band \in Bands :
    ApplyTo("appendColumn", band, 0, 0, appendColumn(unit.input, band))

ApplyPrependColumn ==
  \E band \in Bands :
    ApplyTo("prependColumn", band, 0, 0, prependColumn(unit.input, band))

ApplyCompositeBottomSegment ==
  \E band \in Bands, left \in 0..MaxLeft, top \in 0..MaxTop :
    ApplyTo("compositeBottomSegment", band, left, top,
            compositeBottomSegment(unit.input, band, left, top))

ApplyExtractBottomTile ==
  \E tileHeight \in 1..MaxTileHeight :
    /\ pc = "unit"
    /\ unit.op = "none"
    /\ unit' = [unit EXCEPT !.op = "extractBottomTile", !.tileHeight = tileHeight,
                            !.output = extractBottomTile(unit.input, tileHeight)]
    /\ UNCHANGED <<ui, req, falKey, falNative, pc, es, eb, steps, fal, thrown, res, harness>>

NextHelpers ==
  \/ ApplySlideImageLeft
  \/ ApplySlideImageRight
  \/ ApplyExtractRightThird
  \/ ApplyExtractLeftThird
  \/ ApplySlideImageUp
  \/ ApplyExtractBottomThird
  \/ ApplyAppendColumn
  \/ ApplyPrependColumn
  \/ ApplyCompositeBottomSegment
  \/ ApplyExtractBottomTile

SpecHelpers == InitHelpers /\ [][NextHelpers]_vars
\* ------------------------------------------------------- the client's steps
serverVars == <<req, falKey, falNative, pc, es, eb, steps, fal, thrown, res, harness, unit>>

Files == 1..MaxFiles

\* the file input's onChange with a file chosen
FileInputChange ==
  /\ ~ui.isPreviewMode
  /\ EffectsHaveRun
  /\ \E file \in Files :
       ui' = [ui EXCEPT !.seedFile = file, !.serverSeed = Null, !.extended = Null,
                        !.seedOrigin = "upload", !.pan = [x |-> 0, y |-> 0]]
  /\ UNCHANGED serverVars

\* the clear button, rendered while a seed file is attached
handleClearSeed ==
  /\ ~ui.isPreviewMode
  /\ EffectsHaveRun
  /\ ui.seedFile # 0
  /\ ui' = [ui EXCEPT !.pointerRef = NoUi.pointerRef, !.seedFile = 0,
                      !.seedPreview = Null, !.serverSeed = Null, !.extended = Null,
                      !.seedOrigin = "", !.isDragging = FALSE,
                      !.pan = [x |-> 0, y |-> 0]]
  /\ UNCHANGED serverVars

\* handleExtend up to its first fetch; the submit button is disabled while
\* isLoading and the form is not rendered in preview mode
handleExtend ==
  /\ ~ui.isPreviewMode
  /\ EffectsHaveRun
  /\ ~ui.isLoading
  /\ ui' = [ui EXCEPT !.isLoading = TRUE,
                      !.extend = [pc |-> IF ui.seedFile = 0 THEN "generate" ELSE "extend",
                                  workingSeedFile |-> ui.seedFile]]
  /\ UNCHANGED serverVars

\* handleExtend's catch and finally
ExtendFailed ==
  [ui EXCEPT !.isLoading = FALSE,
             !.extend = [pc |-> "idle", workingSeedFile |-> 0]]

\* handleExtend after /api/generate answered; dataUrlToFile wraps the
\* payload's bytes, so the file reads back as the payload's data URL
GenerateResponse ==
  /\ ui.extend.pc = "generate"
  /\ \/ LET seedPayload == [width |-> FileSize(GeneratedFile)[1],
                            height |-> FileSize(GeneratedFile)[2],
                            image |-> ImageOf("file", GeneratedFile),
                            seedOffset |-> 0]
        IN ui' = [ui EXCEPT !.seedFile = GeneratedFile, !.seedOrigin = "generated",
                            !.seedPreview = seedPayload, !.serverSeed = seedPayload,
                            !.pan = [x |-> 0, y |-> 0],
                            !.extend = [pc |-> "extend", workingSeedFile |-> GeneratedFile]]
     \/ ui' = ExtendFailed
  /\ UNCHANGED serverVars

\* handleExtend after /api/extend answered, up to the first animation frame
\* it waits for
ExtendResponse ==
  /\ ui.extend.pc = "extend"
  /\ \/ \E extended \in ExtendedPayloads(ui.extend.workingSeedFile) :
          \* payload.steps holds one step for each band synthesized
          LET n == extended.image.left + extended.image.right + extended.image.down
          IN ui' = [ui EXCEPT !.serverSeed = SeedPayload(ui.extend.workingSeedFile),
                              !.extended = extended,
                              !.isLoading = (n > 0),
                              !.extend = IF n > 0
                                           THEN [@ EXCEPT !.pc = "steps"]
                                           ELSE [pc |-> "idle", workingSeedFile |-> 0]]
     \/ ui' = ExtendFailed
  /\ UNCHANGED serverVars

\* the scheduler's callback that ends handleExtend's loop over the steps
\* (the frames before it only append to the trace)
AnimationFrame ==
  /\ ui.extend.pc = "steps"
  /\ ui' = [ui EXCEPT !.isLoading = FALSE,
                      !.extend = [pc |-> "idle", workingSeedFile |-> 0]]
  /\ UNCHANGED serverVars

\* reader.onload of the seedFile effect: the preview of the file it read
ReaderLoaded ==
  /\ \E f \in ui.readers, info \in BOOLEAN :
       \* the generated PNG always decodes
       /\ f = GeneratedFile => info
       /\ ui' = [ui EXCEPT !.readers = @ \ {f},
                        !.seedPreview =
                           IF info THEN [width |-> FileSize(f)[1], height |-> FileSize(f)[2],
                                         image |-> ImageOf("file", f), seedOffset |-> 0]
                                   ELSE [Null EXCEPT !.image = ImageOf("file", f)]]
  /\ UNCHANGED serverVars

\* loadImageInfo('/preview.png') resolved, in preview mode
PreviewAssetLoaded ==
  /\ ui.previewLoad
  /\ \E info \in BOOLEAN :
       ui' = [ui EXCEPT !.previewLoad = FALSE,
                        !.previewAsset =
                           IF info THEN [width |-> PreviewSize[1], height |-> PreviewSize[2],
                                         image |-> ImageOf("preview", 0), seedOffset |-> 0]
                                   ELSE @]
  /\ UNCHANGED serverVars

\* useElementSize's updateSize, called by the ResizeObserver
updateSize ==
  /\ \E size \in ElementSizes :
       /\ ui.canvasSize # [width |-> size[1], height |-> size[2]]
       /\ ui' = [ui EXCEPT !.canvasSize = [width |-> size[1], height |-> size[2]]]
  /\ UNCHANGED serverVars

handleKeyDown ==
  /\ EffectsHaveRun
  /\ canvasImage # NoImage
  /\ \E key \in {"ArrowLeft", "ArrowRight", "ArrowUp", "ArrowDown"} :
       LET current == ui.pan
           nextX == IF key = "ArrowLeft" THEN clamp(current.x - stepX, 0, maxOffsetX)
                    ELSE IF key = "ArrowRight" THEN clamp(current.x + stepX, 0, maxOffsetX)
                    ELSE current.x
           nextY == IF key = "ArrowUp" THEN clamp(current.y - stepY, 0, maxOffsetY)
                    ELSE IF key = "ArrowDown" THEN clamp(current.y + stepY, 0, maxOffsetY)
                    ELSE current.y
       IN ui' = [ui EXCEPT !.pan = [x |-> nextX, y |-> nextY]]
  /\ UNCHANGED serverVars

beginDrag(clientX, clientY) ==
  [ui EXCEPT !.pointerRef = [active |-> TRUE, origin |-> [x |-> clientX, y |-> clientY],
                             panStart |-> [x |-> ui.pan.x, y |-> ui.pan.y]],
             !.isDragging = TRUE]

\* the pointer goes down on the canvas element, which has to have an area;
\* pointer coordinates are taken relative to that point
PointerOnCanvas == ui.canvasSize.width > 0 /\ ui.canvasSize.height > 0

handleMouseDown ==
  /\ EffectsHaveRun
  /\ PointerOnCanvas
  /\ canvasImage # NoImage
  /\ ui' = beginDrag(0, 0)
  /\ UNCHANGED serverVars

handleTouchStart ==
  /\ EffectsHaveRun
  /\ PointerOnCanvas
  /\ \E touches \in 1..2 :
       /\ canvasImage # NoImage /\ touches = 1
       /\ ui' = beginDrag(0, 0)
  /\ UNCHANGED serverVars

\* the pan a pointer at (clientX, clientY) drags to
DragTo(clientX, clientY) ==
  LET origin == ui.pointerRef.origin
      panStart == ui.pointerRef.panStart
      deltaX == ((clientX - origin.x) * Sub * scale.den) \div scale.num
      deltaY == ((clientY - origin.y) * Sub * scale.den) \div scale.num
  IN [x |-> clamp(panStart.x - deltaX, 0, maxOffsetX),
      y |-> clamp(panStart.y - deltaY, 0, maxOffsetY)]

handleMouseMove ==
  /\ EffectsHaveRun
  /\ canvasImage # NoImage
  /\ ui.pointerRef.active
  /\ \E to \in PointerMoves :
       ui' = [ui EXCEPT !.pan = DragTo(to[1], to[2])]
  /\ UNCHANGED serverVars

handleTouchMove ==
  /\ EffectsHaveRun
  /\ canvasImage # NoImage
  /\ \E touches \in 1..2, to \in PointerMoves :
       /\ ui.pointerRef.active /\ touches = 1
       /\ ui' = [ui EXCEPT !.pan = DragTo(to[1], to[2])]
  /\ UNCHANGED serverVars

handlePointerUp ==
  /\ EffectsHaveRun
  /\ canvasImage # NoImage
  /\ ui.pointerRef.active
  /\ ui' = [ui EXCEPT !.pointerRef = NoUi.pointerRef, !.isDragging = FALSE]
  /\ UNCHANGED serverVars

\* the seedFile effect (its synchronous part)
SeedFileEffect(u) ==
  IF u.seedFile = 0
    THEN [u EXCEPT !.seedPreview = Null,
                   !.seedOrigin = "", !.isDragging = FALSE,
                   !.pan = [x |-> 0, y |-> 0]]
    ELSE [u EXCEPT !.readers = @ \cup {u.seedFile}]

\* the effect on [maxOffsetX, maxOffsetY]
ClampPanEffect(u) ==
  [u EXCEPT !.pan = [x |-> clamp(u.pan.x, 0, maxOffsetX),
                     y |-> clamp(u.pan.y, 0, maxOffsetY)]]

\* the effect on [activeImage, defaultOffsetX, defaultOffsetY, maxOffsetX,
\* maxOffsetY]
ImageKeyEffect(u) ==
  LET imageKey == activeImage.image
  IN IF imageKey = NoImage THEN [u EXCEPT !.lastImageKeyRef = NoImage]
     ELSE IF u.lastImageKeyRef = imageKey THEN u
     ELSE [u EXCEPT !.lastImageKeyRef = imageKey,
                    !.pan = [x |-> clamp(defaultOffsetX, 0, maxOffsetX),
                             y |-> clamp(defaultOffsetY, 0, maxOffsetY)]]

\* React renders the current state and runs, in the order they are declared,
\* the effects whose dependencies changed; the state they set is applied in
\* that order
RunEffects ==
  /\ ~EffectsHaveRun
  /\ LET was == ui.deps
         now == RenderDeps
         maxChanged == was.maxOffsetX # now.maxOffsetX \/ was.maxOffsetY # now.maxOffsetY
         u1 == IF was.seedFile # now.seedFile THEN SeedFileEffect(ui) ELSE ui
         u2 == IF maxChanged THEN ClampPanEffect(u1) ELSE u1
         u3 == IF \/ maxChanged
                  \/ was.activeImage # now.activeImage
                  \/ was.defaultOffsetX # now.defaultOffsetX
                  \/ was.defaultOffsetY # now.defaultOffsetY
                 THEN ImageKeyEffect(u2) ELSE u2
     IN ui' = [u3 EXCEPT !.deps = now]
  /\ UNCHANGED serverVars

InitClient ==
  /\ req = [file |-> NoFile, iterations |-> <<>>, extendAllDirections |-> "false"]
  /\ falKey = TRUE
  /\ falNative = "match"
  /\ pc = "client"
  /\ es = NoSeedFrame
  /\ eb = NoBottomFrame
  /\ steps = <<>>
  /\ fal = NoCall
  /\ thrown = ""
  /\ res = NoResponse
  /\ harness = NoHarness
  /\ unit = NoUnit
  /\ \E isPreviewMode \in BOOLEAN, size \in ElementSizes :
       ui = [NoUi EXCEPT !.isPreviewMode = isPreviewMode, !.previewLoad = isPreviewMode,
                         !.canvasSize = [width |-> size[1], height |-> size[2]]]

NextClient ==
  \/ FileInputChange
  \/ handleClearSeed
  \/ handleExtend
  \/ GenerateResponse
  \/ ExtendResponse
  \/ AnimationFrame
  \/ ReaderLoaded
  \/ PreviewAssetLoaded
  \/ updateSize
  \/ handleKeyDown
  \/ handleMouseDown
  \/ handleTouchStart
  \/ handleMouseMove
  \/ handleTouchMove
  \/ handlePointerUp
  \/ RunEffects

SpecClient == InitClient /\ [][NextClient]_vars

\* every division the viewer's lengths go through is exact at these sizes
ExactLengths ==
  /\ (Sub * ui.canvasSize.width * scale.den) % scale.num = 0
  /\ (Sub * ui.canvasSize.height * scale.den) % scale.num = 0
  /\ (Sub * scale.den) % scale.num = 0
  /\ viewportWidthOf(ui) % 6 = 0
  /\ viewportHeightOf(ui) % 6 = 0
  /\ (Sub * ui.previewAsset.width) % 3 = 0
  /\ (Sub * imageMeta.width - seedWidthOf(ui)) % 2 = 0
  /\ (Sub * imageMeta.height - seedHeightOf(ui)) % 2 = 0

\* -------------------------------------------------------------------- claims
Succeeded == pc = "responded" /\ res.status = 200

RECURSIVE SumWidths(_)
SumWidths(columns) ==
  IF columns = <<>> THEN 0 ELSE Head(columns).width + SumWidths(Tail(columns))

StepsOf(direction) == SelectSeq(steps, LAMBDA step : step.direction = direction)

StepColumns(direction) ==
  [i \in 1..Len(StepsOf(direction)) |-> StepsOf(direction)[i].column]

\* a and b show the same pixels on the columns [0, width) and rows
\* [0, height), a read from column ax on and b from column bx on
SameColumns(a, ax, b, bx, width, height) ==
  \A x \in 0..(width - 1), y \in 0..(height - 1) :
    PixelAt(a, ax + x, y) = PixelAt(b, bx + x, y)

\* C1: after a successful extendSeed on a seed of width w >= 3, seedOffset is
\* leftAccumulated.width - w, which is the sum of the widths of the leftward
\* bands (one per iteration), and the seed's columns are exactly the columns
\* [seedOffset, seedOffset + w) of the returned canvas.
C1_SeedOffsetExact ==
  (Succeeded /\ es.seedMeta.width >= 3) =>
    LET w == es.seedMeta.width
        h == es.seedMeta.height
        extended == res.body.extended.image
        seedOffset == res.body.extended.seedOffset
    IN /\ seedOffset = es.leftAccumulated.width - w
       /\ seedOffset = SumWidths(StepColumns("left"))
       /\ Len(StepColumns("left")) = Max(es.iterations, 0)
       /\ seedOffset + w <= extended.width
       /\ SameColumns(extended, seedOffset, es.seedBuffer, 0, w, h)
       /\ \A x \in 0..(extended.width - 1), y \in 0..(extended.height - 1) :
            PixelAt(extended, x, y).src.kind = "seed"
              => /\ y < h
                 /\ seedOffset <= x /\ x < seedOffset + w

C1_Witness ==
  /\ Succeeded
  /\ es.seedMeta.width = 5
  /\ es.iterations = 2
  /\ res.body.extended.seedOffset = 2
  /\ es.extendBottom

\* C2: the returned canvas is the leftward accumulator with the rightward
\* bands appended in acquisition order: left to right it holds leftward band
\* N ... 1, the seed, rightward band 1 ... N, and from seedOffset on it is
\* the rightward accumulator.
C2_MergeOrder ==
  Succeeded =>
    LET h == es.seedMeta.height
        w == es.seedMeta.width
        extended == res.body.extended.image
        seedOffset == res.body.extended.seedOffset
        rightBands == StepColumns("right")
        leftBands == StepColumns("left")
    IN /\ extended.width = seedOffset + es.rightAccumulated.width
       /\ SameColumns(extended, seedOffset, es.rightAccumulated, 0,
                      es.rightAccumulated.width, h)
       /\ SameColumns(extended, 0, es.leftAccumulated, 0, es.leftAccumulated.width, h)
       /\ \A j \in 1..Len(rightBands) :
            SameColumns(extended,
                        seedOffset + w + SumWidths(SubSeq(rightBands, 1, j - 1)),
                        rightBands[j], 0, rightBands[j].width, h)
       /\ \A k \in 1..Len(leftBands) :
            SameColumns(extended, seedOffset - SumWidths(SubSeq(leftBands, 1, k)),
                        leftBands[k], 0, leftBands[k].width, h)

C2_Witness ==
  /\ Succeeded
  /\ es.iterations = 3
  /\ es.seedMeta.width = 4
  /\ Len(StepColumns("right")) = 3
  /\ Len(StepColumns("left")) = 3
  /\ res.body.extended.width = 13

\* C3: with no downward phase, a w x h seed (w >= 3) and N iterations per
\* direction give a canvas of height h and width
\* w + N*(w - floor(2w/3)) + N*floor(w/3); a 90x90 seed with N = 3 gives
\* 270x90 with seedOffset 90.
C3_FinalSize ==
  (Succeeded /\ ~es.extendBottom /\ es.seedMeta.width >= 3 /\ es.iterations >= 1) =>
    LET w == es.seedMeta.width
        h == es.seedMeta.height
        N == es.iterations
        extended == res.body.extended
    IN /\ extended.height = h
       /\ extended.width = w + N * (w - ((2 * w) \div 3)) + N * (w \div 3)
       /\ extended.image.width = extended.width
       /\ extended.image.height = extended.height
       /\ (w = 90 /\ h = 90 /\ N = 3) =>
            /\ extended.width = 270
            /\ extended.height = 90
            /\ extended.seedOffset = 90
            /\ extended.seedOffset = SumWidths(StepColumns("left"))

C3_Witness ==
  /\ Succeeded
  /\ ~es.extendBottom
  /\ es.seedMeta = [width |-> 90, height |-> 90]
  /\ es.iterations = 3
  /\ res.body.extended.width = 270
  /\ res.body.extended.seedOffset = 90

C4_Trace ==
  /\ \A k \in 1..Len(steps) : steps[k].iteration = k
  /\ (Succeeded /\ ~es.extendBottom /\ es.iterations >= 1) =>
       LET N == es.iterations
       IN /\ Len(steps) = 2 * N
          /\ \A k \in 1..N : steps[k].direction = "right"
          /\ \A k \in (N + 1)..(2 * N) : steps[k].direction = "left"
          /\ fal.calls = 2 * N
          /\ res.body.steps = [k \in 1..(2 * N) |-> ResponseStep(steps[k])]

\* C4: extendSeed with iterations = N and no downward phase runs exactly N
\* rightward then exactly N leftward iterations: on success steps holds 2N
\* records, N 'right' then N 'left', the k-th with iteration = k, and no
\* step ever removes, reorders or rewrites a record.
C4_StepsExact ==
  /\ [](C4_Trace)
  /\ [][/\ Len(steps') >= Len(steps)
        /\ SubSeq(steps', 1, Len(steps)) = steps]_vars

C4_Witness ==
  /\ Succeeded
  /\ ~es.extendBottom
  /\ es.iterations = 2
  /\ Len(steps) = 4
  /\ steps[3].direction = "left"
  /\ steps[3].iteration = 3

C5_State ==
  /\ res.status = 500 => (DOMAIN res.body = {"error"} /\ thrown # "")
  /\ (pc = "responded" /\ thrown # "") => res.status = 500

\* C5: once a synthesis call or a geometry step of a request has failed, no
\* further synthesis call is issued and no step is recorded, and the answer
\* is a 500 whose body carries `error` and nothing else: no seed, no
\* canvas, no step records.
C5_FailsAtomically ==
  /\ [](C5_State)
  /\ [][thrown # "" => (fal' = fal /\ steps' = steps /\ thrown' = thrown)]_vars
  /\ [][pc = "failed" => (pc' = "responded" /\ res'.status = 500)]_vars
  /\ [][(pc \in {"rightAwait", "leftAwait", "verticalAwait", "horizontalAwait"}
          /\ steps' = steps) => pc' = "failed"]_vars

C5_Witness ==
  /\ pc = "responded"
  /\ res.status = 500
  /\ res.body.error = "FAL API returned no images"
  /\ Len(StepsOf("left")) = 2
  /\ Len(StepsOf("down")) = 2
  /\ eb.workingBuffer.height > es.seedMeta.height

BottomPcs ==
  {"bottomBegin", "verticalAwait", "horizontal", "horizontalAwait", "bottomReturn"}

\* C6: the downward phase starts only after both horizontal loops and the
\* merge: it works on the merged canvas, every 'down' record comes after
\* all 'right' and 'left' records, and the 'down' records are one
\* 'vertical' record followed by 'horizontal' records only.
C6_DownAfterMerge ==
  /\ \A i \in 1..Len(steps) : \A j \in i..Len(steps) :
       steps[i].direction = "down" => steps[j].direction = "down"
  /\ \A i \in 1..Len(steps) :
       steps[i].direction \in {"right", "left"} => steps[i].stage = "none"
  /\ LET down == StepsOf("down")
     IN \A i \in 1..Len(down) :
          down[i].stage = IF i = 1 THEN "vertical" ELSE "horizontal"
  /\ pc \in BottomPcs =>
       /\ Len(StepsOf("right")) = Max(es.iterations, 0)
       /\ Len(StepsOf("left")) = Max(es.iterations, 0)
       /\ es.finalBuffer.width = es.leftAccumulated.width + SumWidths(es.rightColumns)
       /\ eb.baseBuffer = es.finalBuffer
  /\ Len(StepsOf("down")) > 0 => es.extendBottom

C6_Witness ==
  /\ Succeeded
  /\ Len(StepsOf("right")) = 2
  /\ Len(StepsOf("left")) = 2
  /\ Len(StepsOf("down")) >= 3
  /\ steps[5].stage = "vertical"
  /\ steps[6].stage = "horizontal"

DownStages(stage) == SelectSeq(steps, LAMBDA step : step.direction = "down" /\ step.stage = stage)

ScenarioDown ==
  /\ Succeeded
  /\ es.seedMeta = [width |-> 90, height |-> 90]
  /\ es.extendBottom

\* C7 as stated: a 90x90 seed with the downward phase (and the default 3
\* iterations per direction) ends 120 high after one vertical call plus
\* exactly 3 horizontal calls, every horizontal band being 30px wide.
C7_Original ==
  (ScenarioDown /\ es.iterations = ITERATIONS) =>
    /\ res.body.extended.height = 120
    /\ Len(DownStages("vertical")) = 1
    /\ (\A i \in 1..Len(DownStages("horizontal")) :
          DownStages("horizontal")[i].column.width = 30)
         => Len(DownStages("horizontal")) = 3

\* C7 amended: a 90x90 seed with the downward phase ends 120 high after one
\* vertical call, whose band covers the first 90 columns, plus one
\* horizontal call per remaining 30 columns of the merged canvas: 2N calls
\* after N iterations per direction (6 for the default N = 3), each band
\* 30px wide.
C7_DownScenario ==
  ScenarioDown =>
    LET extended == res.body.extended
        N == Max(es.iterations, 0)
        horizontal == DownStages("horizontal")
    IN /\ extended.height = 120
       /\ extended.image.height = 120
       /\ Len(DownStages("vertical")) = 1
       /\ DownStages("vertical")[1].column.width = 90
       /\ \A i \in 1..Len(horizontal) : horizontal[i].column.width = 30
       /\ Len(horizontal) * 30 = extended.width - 90
       /\ Len(horizontal) = 2 * N
       /\ eb.horizontalCalls = Len(horizontal)
       /\ fal.calls = Len(steps)

C7_Witness ==
  /\ ScenarioDown
  /\ es.iterations = 3
  /\ res.body.extended.height = 120
  /\ res.body.extended.width = 270
  /\ Len(DownStages("horizontal")) = 6

HorizontalPcs == {"horizontal", "horizontalAwait"}

C8_Bounded ==
  pc \in HorizontalPcs =>
    /\ eb.startOffset <= eb.currentOffset
    /\ eb.currentOffset <= eb.finalWidth
    /\ eb.horizontalCalls <= eb.finalWidth - eb.startOffset
    /\ eb.horizontalCalls <= (eb.currentOffset - eb.startOffset)
                               + (IF pc = "horizontalAwait" THEN 1 ELSE 0)
    /\ pc = "horizontalAwait" => eb.currentOffset < eb.finalWidth

\* C8: the horizontal loop of extendBottomRow terminates whenever every
\* synthesis call returns: each iteration that goes round again strictly
\* increases currentOffset, currentOffset never exceeds finalWidth, the loop
\* is left as soon as currentOffset >= finalWidth and goes on only below
\* it, and at most finalWidth - (initial offset) horizontal calls are made.
C8_HorizontalTerminates ==
  /\ [](C8_Bounded)
  /\ [][(pc = "horizontalAwait" /\ pc' = "horizontal")
          => eb'.currentOffset > eb.currentOffset]_vars
  /\ [][(pc = "horizontal" /\ eb.currentOffset >= eb.finalWidth)
          => pc' = "bottomReturn"]_vars
  /\ [][(pc = "horizontal" /\ eb.currentOffset < eb.finalWidth)
          => pc' \in {"horizontalAwait", "failed"}]_vars
  /\ [][pc = "horizontalAwait"
          => pc' \in {"horizontal", "bottomReturn", "failed"}]_vars

C8_Witness ==
  /\ pc = "bottomReturn"
  /\ harness.invocations = 2
  /\ eb.horizontalCalls = 4
  /\ eb.currentOffset = eb.finalWidth
  /\ eb.startOffset = 3
  /\ eb.finalWidth = 7

UnitSlid == unit.op \in {"slideImageLeft", "slideImageRight"} /\ unit.input.width >= 3

\* C10: for every width w >= 3 the thirds [0, floor(w/3)),
\* [floor(w/3), floor(2w/3)), [floor(2w/3), w) the slides cut are three
\* positive, contiguous, non-overlapping spans whose lengths sum to w, the
\* last one w - floor(2w/3) long and 0 or 1 longer than the first.
C10_ThirdsPartition ==
  UnitSlid =>
    LET w == unit.input.width
        first == Thirds(w).col1End
        second == Thirds(w).col2End - Thirds(w).col1End
        last == Thirds(w).thirdWidth
        out == unit.output
    IN /\ ~IsError(out)
       /\ first > 0 /\ second > 0 /\ last > 0
       /\ first = w \div 3
       /\ first + second = (2 * w) \div 3
       /\ first + second + last = w
       /\ last = w - ((2 * w) \div 3)
       /\ last - first \in {0, 1}
       /\ out.width = w
       \* the slices as the slide placed them start at the span boundaries
       /\ unit.op = "slideImageLeft" =>
            /\ PixelAt(out, 0, 0).x = first
            /\ PixelAt(out, first, 0).x = first + second
            /\ PixelAt(out, first + last - 1, 0).x = w - 1
       /\ unit.op = "slideImageRight" =>
            /\ PixelAt(out, last, 0).x = 0
            /\ PixelAt(out, last + first, 0).x = first
            /\ PixelAt(out, w - 1, 0).x = first + second - 1

C10_Witness ==
  /\ unit.op = "slideImageLeft"
  /\ unit.input.width = 8
  /\ ~IsError(unit.output)
  /\ Thirds(8) = [col1End |-> 2, col2End |-> 5, thirdWidth |-> 3]
  /\ PixelAt(unit.output, 2, 0).x = 5

TooSmallToSplit == "Image width is too small to split into thirds"

WidthThirdsOps ==
  {"slideImageLeft", "slideImageRight", "extractRightThird", "extractLeftThird"}

HeightThirdsOps == {"slideImageUp", "extractBottomThird"}

UnitJoined == unit.op \in {"appendColumn", "prependColumn"}

\* the pixel p shows column bx, row y of the band, resized in height only
\* when the band is not as high as the base
BandPixel(p, band, base, bx, y) ==
  /\ p.x = bx
  /\ p.y = y
  /\ p.src = IF band.height = base.height THEN [kind |-> "column"]
             ELSE [kind |-> "resize", input |-> band]

CanvasPixel(p, cx, y) == p = [src |-> [kind |-> "canvas"], x |-> cx, y |-> y]

\* C13: for any base and band of positive dimensions appendColumn and
\* prependColumn return a raster base.width + band.width wide and base.height
\* high, whether or not the band is as high as the base (then it is resized
\* in height only); append shows the base on columns [0, base.width) and the
\* band on [base.width, base.width + band.width), prepend the band on
\* [0, band.width) and the base shifted right by band.width.
C13_ColumnPlacement ==
  UnitJoined =>
    LET base == unit.input
        band == unit.band
        out == unit.output
    IN /\ ~IsError(out)
       /\ out.width = base.width + band.width
       /\ out.height = base.height
       /\ \A x \in 0..(out.width - 1), y \in 0..(out.height - 1) :
            LET p == PixelAt(out, x, y)
            IN IF unit.op = "appendColumn"
               THEN IF x < base.width THEN CanvasPixel(p, x, y)
                    ELSE BandPixel(p, band, base, x - base.width, y)
               ELSE IF x < band.width THEN BandPixel(p, band, base, x, y)
                    ELSE CanvasPixel(p, x - band.width, y)

C13_Witness ==
  /\ unit.op = "prependColumn"
  /\ unit.input.width = 5
  /\ unit.input.height = 4
  /\ unit.band.width = 2
  /\ unit.band.height = 3
  /\ unit.output.width = 7
  /\ unit.output.height = 4
  /\ PixelAt(unit.output, 1, 3).src.kind = "resize"

\* a and b are rasters of the same size showing the same pixels
PixelIdentical(a, b) ==
  /\ ~IsError(a)
  /\ ~IsError(b)
  /\ a.width = b.width
  /\ a.height = b.height
  /\ \A x \in 0..(a.width - 1), y \in 0..(a.height - 1) :
       PixelAt(a, x, y) = PixelAt(b, x, y)

\* C14: cropping the rightmost band.width columns out of
\* appendColumn(base, band) gives back, pixel for pixel, the band as it was
\* composited (resized to the base's height when the heights differ), and
\* cropping the leftmost base.width columns gives back the base.
C14_AppendRoundTrip ==
  unit.op = "appendColumn" =>
    LET base == unit.input
        band == unit.band
        out == unit.output
        composited == IF band.height = base.height THEN band
                      ELSE resize(band, band.width, base.height)
        rightCrop == extract(out, Region(out.width - band.width, 0,
                                         band.width, out.height))
        leftCrop == extract(out, Region(0, 0, base.width, out.height))
    IN /\ ~IsError(out)
       /\ PixelIdentical(rightCrop, composited)
       /\ PixelIdentical(leftCrop, base)

C14_Witness ==
  /\ unit.op = "appendColumn"
  /\ unit.input.width = 6
  /\ unit.input.height = 2
  /\ unit.band.width = 3
  /\ unit.band.height = 3
  /\ PixelAt(unit.output, 8, 1) =
       [src |-> [kind |-> "resize", input |-> unit.band], x |-> 2, y |-> 1]

\* C15 as stated: compositeBottomSegment called with
\* left + segment.width > canvas.width (the segment fitting the canvas in
\* height) does not throw, returns a canvas of the same size, writes no
\* pixel of the segment left of the requested offset, and shows from the
\* requested offset on the columns of the segment that fit.
C15_Original ==
  (/\ unit.op = "compositeBottomSegment"
   /\ unit.left + unit.band.width > unit.input.width
   /\ unit.top + unit.band.height <= unit.input.height) =>
    LET base == unit.input
        out == unit.output
    IN /\ ~IsError(out)
       /\ out.width = base.width
       /\ out.height = base.height
       /\ \A x \in 0..(base.width - 1), y \in 0..(base.height - 1) :
            LET p == PixelAt(out, x, y)
            IN /\ x < unit.left => p.src.kind # "column"
               /\ (/\ x >= unit.left
                   /\ y >= unit.top /\ y < unit.top + unit.band.height)
                    => p = [src |-> [kind |-> "column"],
                            x |-> x - unit.left, y |-> y - unit.top]

AwaitPcs == {"rightAwait", "leftAwait", "verticalAwait", "horizontalAwait"}

HasSize(buffer, size) == buffer.width = size.width /\ buffer.height = size.height

\* the sizes the collaborator may answer in
AnswerSizes == ((1..(MaxSeedW + 1)) \X (1..(MaxSeedH + 1))) \cup {FalSquare}

\* C16: callFal returns a raster of exactly expectedSize whatever size the
\* collaborator answers in; so in every iteration of the rightward and the
\* leftward loop the slid context and the context kept for the next
\* iteration are exactly as wide and high as the seed, and all bands of one
\* direction are as wide as the first and as high as the seed.
C16_StableContext ==
  /\ pc \in AwaitPcs =>
       /\ HasSize(FalBuffer, fal.expectedSize)
       /\ \A size \in AnswerSizes :
            HasSize(NormalizeFal(Downloaded(fal.calls, size), fal.expectedSize),
                    fal.expectedSize)
  /\ pc \in {"rightAwait", "leftAwait"} =>
       /\ HasSize(fal.slid, es.seedMeta)
       /\ fal.expectedSize = es.seedMeta
  /\ es.seedBuffer # NoBuffer =>
       /\ HasSize(es.rightContextBuffer, es.seedMeta)
       /\ es.leftContextBuffer # NoBuffer => HasSize(es.leftContextBuffer, es.seedMeta)
       /\ \A i \in 1..Len(es.rightColumns) :
            /\ es.rightColumns[i].width = es.rightColumns[1].width
            /\ es.rightColumns[i].height = es.seedMeta.height
       /\ \A i \in 1..Len(es.leftColumns) :
            /\ es.leftColumns[i].width = es.leftColumns[1].width
            /\ es.leftColumns[i].height = es.seedMeta.height

C16_Witness ==
  /\ Succeeded
  /\ falNative = "square"
  /\ es.seedMeta = [width |-> 5, height |-> 3]
  /\ es.iterations = 2
  /\ Len(es.rightColumns) = 2
  /\ Len(es.leftColumns) = 2
  /\ es.rightContextBuffer.tiles[1].src.kind = "resize"
  /\ es.rightContextBuffer.tiles[1].src.input.width = 8

C17_State ==
  /\ fal.calls - Len(steps) \in {0, 1}
  /\ pc \in AwaitPcs => fal.calls = Len(steps) + 1
  /\ (pc \notin AwaitPcs /\ thrown = "") => fal.calls = Len(steps)
  /\ Succeeded => fal.calls = Len(steps)

\* C17: no synthesis call is retried.  Every loop iteration (rightward,
\* leftward, vertical, horizontal) issues exactly one callFal: calls issued
\* minus step records appended is 0 or 1 at every point of a request, a call
\* is issued only when every earlier call has its step record, a call that
\* fails is the last call of the request, and on success there are as many
\* calls as step records.
C17_NoRetry ==
  /\ [](C17_State)
  /\ [][fal'.calls \in {fal.calls, fal.calls + 1}]_vars
  /\ [][fal'.calls = fal.calls + 1
          => (fal.calls = Len(steps) /\ pc \notin AwaitPcs /\ pc' \in AwaitPcs)]_vars
  /\ [][(pc \in AwaitPcs)
          => ((Len(steps') = Len(steps) + 1 /\ fal'.calls = fal.calls) \/
              (steps' = steps /\ pc' = "failed" /\ fal'.calls = fal.calls))]_vars
  /\ [][(pc \in {"failed", "responded"}) => fal'.calls = fal.calls]_vars

C17_Witness ==
  /\ pc = "responded"
  /\ res.status = 500
  /\ res.body.error = "fal request failed"
  /\ fal.calls = 8
  /\ Len(steps) = 7
  /\ Len(StepsOf("right")) = 3
  /\ Len(StepsOf("left")) = 3
  /\ Len(DownStages("vertical")) = 1

\* the synthesis call whose answer pixel p shows, 0 when it shows none
SynthesisCall(p) ==
  IF p.src.kind = "fal" THEN p.src.call
  ELSE IF p.src.kind = "resize" /\ p.src.input.tiles[1].src.kind = "fal"
       THEN p.src.input.tiles[1].src.call
       ELSE 0

BottomRowCompleted == pc \in {"bottomReturn", "return", "responded"} /\ eb.result # NoBuffer

\* C18: when extendBottomRow has completed, the strip it added is covered
\* by synthesized content: every pixel of the rows below finalHeight, on
\* every column [0, finalWidth), comes from the answer to a call of the
\* downward phase (the vertical band or a horizontal tile); none is white,
\* between segments or at the right edge.
C18_StripCovered ==
  BottomRowCompleted =>
    LET out == eb.result
        base == eb.baseBuffer
        firstDown == Len(steps) - Len(StepsOf("down")) + 1
    IN /\ out.width = base.width
       /\ (es.seedMeta.width >= 3 /\ es.seedMeta.height >= 3)
            => out.height = base.height + (es.seedMeta.height \div 3)
       /\ \A x \in 0..(out.width - 1), y \in base.height..(out.height - 1) :
            LET p == PixelAt(out, x, y)
            IN /\ p.src.kind # "white"
               /\ SynthesisCall(p) >= firstDown
               /\ SynthesisCall(p) <= Len(steps)

C18_Witness ==
  /\ Succeeded
  /\ es.extendBottom
  /\ es.seedMeta = [width |-> 7, height |-> 4]
  /\ es.iterations = 2
  /\ eb.finalWidth = 17
  /\ eb.result.height = 5
  /\ Len(DownStages("horizontal")) = 6
  /\ SynthesisCall(PixelAt(eb.result, 16, 4)) = Len(steps)
  /\ SynthesisCall(PixelAt(eb.result, 15, 4)) = Len(steps)

\* the columns of raster r whose pixel in row 0 is white
WhiteColumns(r) == {x \in 0..(r.width - 1) : PixelAt(r, x, 0).src.kind = "white"}

\* the columns of the input that raster r shows somewhere in row 0
ShownColumns(r) ==
  {PixelAt(r, x, 0).x : x \in {c \in 0..(r.width - 1) : PixelAt(r, c, 0).src.kind = "canvas"}}

\* C19 as stated: for every context of width w >= 3 slideImageLeft returns a
\* raster of the same size in which the middle and the right slice do not
\* overlap (every column of both is shown), together cover exactly the
\* columns [0, floor(2w/3)), and the white columns are exactly
\* [floor(2w/3), w), the region extractRightThird takes from the response.
C19_Original ==
  (unit.op = "slideImageLeft" /\ unit.input.width >= 3) =>
    LET w == unit.input.width
        out == unit.output
        taken == extractRightThird(out)
    IN /\ ~IsError(out)
       /\ out.width = w
       /\ out.height = unit.input.height
       /\ ShownColumns(out) = (w \div 3)..(w - 1)
       /\ WhiteColumns(out) = ((2 * w) \div 3)..(w - 1)
       /\ Cardinality(WhiteColumns(out)) = taken.width

\* C20 as stated: for every context of width w >= 3 slideImageRight returns
\* a raster of the same size whose white columns are exactly
\* [0, floor(w/3)), the region extractLeftThird takes from the response, so
\* that no synthesized column is dropped.
C20_Original ==
  (unit.op = "slideImageRight" /\ unit.input.width >= 3) =>
    LET w == unit.input.width
        out == unit.output
        taken == extractLeftThird(out)
    IN /\ ~IsError(out)
       /\ out.width = w
       /\ out.height = unit.input.height
       /\ WhiteColumns(out) = 0..((w \div 3) - 1)
       /\ Cardinality(WhiteColumns(out)) = taken.width

\* the rows of raster r whose pixel in column 0 is white
WhiteRows(r) == {y \in 0..(r.height - 1) : PixelAt(r, 0, y).src.kind = "white"}

\* C21 as stated: in the vertical step, for every seed height h >= 3, the
\* rows slideImageUp leaves white, the band extractBottomThird takes from
\* the response and the strip added to the canvas are all floor(h/3) high,
\* so the band overlaid at top = finalHeight ends exactly at the bottom edge
\* of the grown canvas (read for a request that ran its iterations).
C21_Original ==
  (pc = "verticalAwait" /\ es.seedMeta.height >= 3 /\ es.iterations >= 1) =>
    LET h == es.seedMeta.height
        bottomBand == extractBottomThird(FalBuffer)
    IN /\ Cardinality(WhiteRows(fal.slid)) = h \div 3
       /\ eb.workingBuffer.height - eb.finalHeight = h \div 3
       /\ bottomBand.height = h \div 3
       /\ eb.finalHeight + bottomBand.height = eb.workingBuffer.height

\* C22: extractBottomTile(raster, tileHeight) with tileHeight >= 1 returns a
\* band as wide as the raster and min(tileHeight, raster.height) high whose
\* rows are the last rows of the raster: the band's row y is the raster's
\* row raster.height - bandHeight + y, so it starts at the top only when it
\* is the whole raster.
C22_BottomAnchored ==
  unit.op = "extractBottomTile" =>
    LET raster == unit.input
        out == unit.output
        bandHeight == Min(unit.tileHeight, raster.height)
        top == raster.height - bandHeight
    IN /\ ~IsError(out)
       /\ out.width = raster.width
       /\ out.height = bandHeight
       /\ top >= 0
       /\ top + out.height = raster.height
       /\ \A x \in 0..(out.width - 1), y \in 0..(out.height - 1) :
            PixelAt(out, x, y) = PixelAt(raster, x, top + y)
       /\ PixelAt(out, 0, 0).y = 0 => out.height = raster.height

C22_Witness ==
  /\ unit.op = "extractBottomTile"
  /\ unit.input.height = 4
  /\ unit.input.width = 6
  /\ unit.tileHeight = 1
  /\ unit.output.height = 1
  /\ PixelAt(unit.output, 5, 0) = [src |-> [kind |-> "canvas"], x |-> 5, y |-> 3]

BadExtractArea == "extract_area: bad extract area"

\* C23: every region handed to extract during a run of extendSeed (by the
\* slides, the third and bottom-tile extractions, the context block and the
\* segment clamp) lies inside its parent with positive width and height: no
\* request ever fails, or is about to fail, on a bad extract area, and the
\* rasters cut so far all have positive dimensions.
C23_RegionsInside ==
  /\ thrown # BadExtractArea
  /\ res.status = 500 => res.body.error # BadExtractArea
  /\ pc \in AwaitPcs =>
       /\ fal.slid.width > 0 /\ fal.slid.height > 0
       /\ ~IsError(extractRightThird(FalBuffer))
       /\ ~IsError(extractLeftThird(FalBuffer))
       /\ ~IsError(extractBottomThird(FalBuffer))
  /\ \A i \in 1..Len(steps) :
       /\ ~IsError(steps[i].column)
       /\ steps[i].column.width > 0
       /\ steps[i].column.height > 0
  /\ pc \in {"verticalAwait", "horizontal", "horizontalAwait"} =>
       /\ eb.context.width > 0
       /\ eb.context.width <= eb.workingBuffer.width
       /\ eb.context.height <= eb.workingBuffer.height

C23_Witness ==
  /\ Succeeded
  /\ es.extendBottom
  /\ es.seedMeta = [width |-> 7, height |-> 4]
  /\ es.iterations = 2
  /\ Len(DownStages("horizontal")) = 6
  /\ steps[Len(steps)].column.width = 2
  /\ steps[Len(steps)].column.height = 1

C25_Original ==
  (pc # "request" /\ req.file.kind = "image") =>
    /\ es.iterations >= 1
    /\ (parseInt(req.iterations).nan => es.iterations = ITERATIONS)
    /\ (~parseInt(req.iterations).nan /\ parseInt(req.iterations).value # 0)
         => es.iterations = parseInt(req.iterations).value
    /\ Succeeded => (Len(StepsOf("right")) >= 1 /\ Len(StepsOf("left")) >= 1)

\* the increment the horizontal iteration in flight computes once the
\* collaborator has answered
PendingIncrement ==
  Increment(extractBottomTile(extractRightThird(FalBuffer), eb.tileHeight).width,
            eb.tileWidth, eb.finalWidth, eb.currentOffset)

\* C26: inside the horizontal loop of extendBottomRow the increment is
\* always >= 1, so `if (!increment) break` is never taken: an iteration
\* whose call returned always goes back to the loop guard, and the loop is
\* only left through the guard, with currentOffset exactly finalWidth.
C26_NeverStalls ==
  /\ [](pc = "horizontalAwait" => PendingIncrement >= 1)
  /\ [][(pc = "horizontalAwait") => pc' \in {"horizontal", "failed"}]_vars
  /\ [][(pc = "horizontalAwait" /\ pc' = "horizontal")
          => eb'.currentOffset >= eb.currentOffset + 1]_vars
  /\ [][(pc \in HorizontalPcs /\ pc' = "bottomReturn")
          => (pc = "horizontal" /\ eb.currentOffset = eb.finalWidth
              /\ eb'.result = eb.workingBuffer)]_vars

C26_Witness ==
  /\ pc = "bottomReturn"
  /\ eb.tileWidth = 2
  /\ eb.finalWidth = 7
  /\ eb.startOffset = 6
  /\ eb.horizontalCalls = 1
  /\ eb.currentOffset = 7

\* C27: the downward phase only writes into the new strip.  The working
\* canvas is as wide as the merged canvas throughout, and the canvas
\* extendBottomRow returns is as wide as the merged canvas with rows
\* [0, finalHeight) pixel-identical to it; the downward phase
\* changes neither the leftward accumulator nor the merge, so the
\* seedOffset returned is max(0, leftAccumulated.width - seed.width) with
\* or without the downward phase.
C27_OnlyTheStrip ==
  /\ [](pc \in {"verticalAwait", "horizontal", "horizontalAwait"} =>
          /\ eb.workingBuffer.width = eb.baseBuffer.width
          /\ eb.workingBuffer.height = eb.baseBuffer.height + eb.tileHeight)
  /\ [](BottomRowCompleted =>
          /\ eb.result.width = eb.baseBuffer.width
          /\ eb.result.height >= eb.baseBuffer.height
          /\ SameColumns(eb.result, 0, eb.baseBuffer, 0,
                         eb.baseBuffer.width, eb.baseBuffer.height))
  /\ [](Succeeded =>
          /\ res.body.extended.seedOffset
               = Max(0, es.leftAccumulated.width - es.seedMeta.width)
          /\ es.extendBottom =>
               /\ res.body.extended.image = eb.result
               /\ res.body.extended.width = eb.baseBuffer.width)
  /\ [][(pc \in BottomPcs)
          => (/\ es'.leftAccumulated = es.leftAccumulated
              /\ es'.leftMeta = es.leftMeta
              /\ es'.seedMeta = es.seedMeta
              /\ eb'.baseBuffer = eb.baseBuffer)]_vars

C27_Witness ==
  /\ Succeeded
  /\ es.extendBottom
  /\ es.seedMeta = [width |-> 6, height |-> 3]
  /\ es.iterations = 2
  /\ res.body.extended.seedOffset = 4
  /\ res.body.extended.height = 4
  /\ PixelAt(res.body.extended.image, 4, 2) = [src |-> [kind |-> "seed"], x |-> 0, y |-> 2]
  /\ SynthesisCall(PixelAt(res.body.extended.image, 4, 3)) = 5

KeyNotConfigured == "FAL_KEY is not configured"

\* the request gets as far as a synthesis step: a slide of the rightward
\* loop passes its guard, or the loops are skipped and the downward phase
\* finds a seed it can tile
ReachesSynthesis ==
  /\ req.file.kind = "image"
  /\ req.file.width >= 3
  /\ \/ es.iterations >= 1
     \/ (es.extendBottom /\ req.file.height >= 3)

\* C28: without the credential callFal throws 'FAL_KEY is not configured'
\* before anything is uploaded or the collaborator contacted: no call is
\* ever issued or awaited and no step recorded, and every /api/extend
\* request that reaches a synthesis step ends in the 500 carrying that
\* error, with no canvas.
C28_KeyRequired ==
  ~falKey =>
    /\ fal = NoCall
    /\ pc \notin AwaitPcs
    /\ steps = <<>>
    /\ (pc \in {"failed", "responded"} /\ ReachesSynthesis) => thrown = KeyNotConfigured
    /\ thrown = KeyNotConfigured => ReachesSynthesis
    /\ (pc = "responded" /\ ReachesSynthesis) => res = ErrorResponse(KeyNotConfigured)
    /\ Succeeded => (~ReachesSynthesis /\ res.body.extended.image = es.seedBuffer)

C28_Witness ==
  /\ ~falKey
  /\ pc = "responded"
  /\ req.file = [kind |-> "image", width |-> 90, height |-> 90]
  /\ es.iterations = ITERATIONS
  /\ res.status = 500
  /\ res.body.error = KeyNotConfigured
  /\ fal.calls = 0

\* C29 (as stated): the canvas and the server's seed the client holds were
\* computed from the seed file that is attached now; a response that comes
\* back after the seed was changed or cleared sets neither.
C29_Original ==
  /\ ui.extended # Null =>
       (ui.seedFile # 0 /\ ui.extended.image.of = ui.seedFile)
  /\ (ui.serverSeed # Null /\ ui.serverSeed.image.kind = "seed") =>
       (ui.seedFile # 0 /\ ui.serverSeed.image.of = ui.seedFile)

\* the step on which the effects take up the extended canvas as the image
\* shown: its data URL is not the one the viewer last positioned
TakesUpNewCanvas ==
  /\ ui.extended # Null
  /\ ui.lastImageKeyRef # ui.extended.image
  /\ ~EffectsHaveRun
  /\ ui'.deps = RenderDeps

\* C30: whenever the effects have run, the pan offset lies in
\* [0, maxOffsetX] x [0, maxOffsetY], whatever keys, drags, resizes and
\* image changes came before; and the effects that take up a new extended
\* canvas set pan.x to clamp(seedOffset, 0, maxOffsetX).
C30_PanClamped ==
  /\ [](EffectsHaveRun =>
          /\ 0 <= ui.pan.x /\ ui.pan.x <= maxOffsetX
          /\ 0 <= ui.pan.y /\ ui.pan.y <= maxOffsetY
          /\ ui.extended # Null => ui.lastImageKeyRef = ui.extended.image)
  /\ [][TakesUpNewCanvas =>
          ui'.pan.x = clamp(Sub * ui.extended.seedOffset, 0, maxOffsetX)]_vars

\* a canvas grown to both sides has arrived in the middle of a drag: the pan
\* sits on the seed's left edge, seedOffset = 2 px in, below maxOffsetX
C30_Witness ==
  /\ EffectsHaveRun
  /\ ui.seedFile = 1
  /\ ui.extended = ExtendedPayload(1, 1, 1, 0)
  /\ ui.canvasSize = [width |-> 1, height |-> 2]
  /\ maxOffsetX = 4 * Sub
  /\ maxOffsetY = 0
  /\ ui.pan = [x |-> 2 * Sub, y |-> 0]
  /\ ui.pointerRef.active
====
